---- MODULE Spec2Model ----
(***************************************************************************)
(* HistoryHydratingAgentRunner: connect() hydrates a thread from the       *)
(* backend's checkpoints, emits the snapshot events, and joins the live    *)
(* stream of an active run.                                                *)
(*                                                                         *)
(* An optional JavaScript value (undefined / null / absent field) is a     *)
(* sequence of length 0 (None) or 1 (Some(x)).  A null array entry is a    *)
(* record whose tag says "null".                                           *)
(***************************************************************************)
EXTENDS Integers, Sequences, FiniteSets, TLC

VARIABLES
    config,                \* the argument of the constructor
    constructed,           \* the constructor returned (it did not throw)
    agent,                 \* this.agent and the state set on it
    customClient,          \* this.customClient
    frozenConfig,          \* this.frozenConfig
    instances,             \* agents and clients the runner has created
    requests,              \* every run() and connect() call: the instance
                           \* it was served by, or that it threw
    historyLimit,          \* this.historyLimit, set by the constructor
    activeRun,             \* this.activeRun.manuallyEmittedState
    threadId,              \* request.threadId
    pc,                    \* the suspension point hydrate() is waiting at
    history,               \* const history (the array, reversed in place)
    allMessages,           \* the deduplicated log
    limitedMessages,       \* the log after the history limit
    transformedMessages,   \* the log after transformMessages
    runId,                 \* let runId of connect()
    joinRunId,             \* the runId parameter of joinAndProcessStream
    currentRunId,          \* let currentRunId of joinAndProcessStream
    manuallyEmittedState,  \* let manuallyEmittedState of joinAndProcessStream
    startedMessages,       \* const startedMessages
    startedToolCalls,      \* const startedToolCalls
    chunksRead,            \* chunks the joined stream has delivered so far
    trace,                 \* every backend call, its outcome, and every
                           \* subscriber.next / complete / error, in order
    other                  \* the locals of a second hydrate() of this runner
                           \* that is not running now: not started, waiting
                           \* at a suspension point, or finished

vars == <<config, constructed, agent, customClient, frozenConfig, instances,
          requests, historyLimit, activeRun, threadId, pc, history, allMessages,
          limitedMessages, transformedMessages, runId, joinRunId,
          currentRunId, manuallyEmittedState, startedMessages,
          startedToolCalls, chunksRead, trace, other>>

ctorVars == <<config, constructed, customClient, frozenConfig>>
requestVars == <<agent, instances, requests>>
runnerVars == <<ctorVars, requestVars, historyLimit, activeRun, threadId>>
logVars == <<history, allMessages, limitedMessages, transformedMessages>>
joinVars == <<joinRunId, currentRunId, manuallyEmittedState, startedMessages,
              startedToolCalls, chunksRead>>

(* what one hydrate() owns: its closure's variables and its position *)
Locals ==
    [threadId |-> threadId, pc |-> pc, history |-> history,
     allMessages |-> allMessages, limitedMessages |-> limitedMessages,
     transformedMessages |-> transformedMessages, runId |-> runId,
     joinRunId |-> joinRunId, currentRunId |-> currentRunId,
     manuallyEmittedState |-> manuallyEmittedState,
     startedMessages |-> startedMessages,
     startedToolCalls |-> startedToolCalls, chunksRead |-> chunksRead,
     trace |-> trace]

(***************************************************************************)
(* Bounds and program constants                                            *)
(***************************************************************************)
MaxCheckpoints == 2
MaxChunks == 2
MaxRuns == 2
DEFAULT_HISTORY_LIMIT == 100
MAX_HISTORY_LIMIT == 1000
DEFAULT_TIMEOUT == 1800000

(***************************************************************************)
(* Optional values                                                         *)
(***************************************************************************)
None == <<>>
Some(x) == <<x>>
IsSome(o) == Len(o) > 0
Min(a, b) == IF a <= b THEN a ELSE b

(***************************************************************************)
(* Backend data                                                            *)
(***************************************************************************)
Msg(id, type, content) == [id |-> id, type |-> type, content |-> content]
NullMsg == Msg("", "null", "")
IsNullEntry(m) == m.type = "null"

Task(interrupts) == [kind |-> "task", interrupts |-> interrupts]
NullTask == [kind |-> "null", interrupts |-> None]
Interrupt(value) == [value |-> value]

Checkpoint(values, next, tasks) ==
    [values |-> values, next |-> next, tasks |-> tasks]
Values(messages) == Some([messages |-> messages])

Run(id, status) == [run_id |-> id, status |-> status]

Nonces == {"x", "y"}
Threads == {"tA"}

MsgA1 == Msg("a", "human", "v1")
MsgA2 == Msg("a", "human", "v2")
MsgB1 == Msg("b", "ai", "v1")
MsgC1 == Msg("c", "human", "v1")

TasksNoInterrupt == Some(<<Task(None)>>)
TasksInterrupted ==
    Some(<<Task(Some(<<>>)),
           Task(Some(<<Interrupt(Some("p1")), Interrupt(Some("p2"))>>)),
           Task(Some(<<Interrupt(Some("p2"))>>))>>)
TasksOtherInterrupt == Some(<<Task(Some(<<Interrupt(Some("p2"))>>))>>)
TasksUndefinedValue == Some(<<Task(Some(<<Interrupt(None)>>))>>)
TasksNullEntry == Some(<<Task(None), NullTask>>)
TasksInterruptThenNull ==
    Some(<<Task(Some(<<Interrupt(Some("p1"))>>)), NullTask>>)

RECURSIVE SeqsOfLen(_, _)
SeqsOfLen(S, n) ==
    IF n = 0 THEN {<<>>}
    ELSE {Append(s, x) : s \in SeqsOfLen(S, n - 1), x \in S}

(* The inputs of the log builder: every history of 1..MaxCheckpoints       *)
(* checkpoints whose messages are lists of at most two entries.            *)
LogMsgs == {MsgA1, MsgA2, MsgB1, MsgC1}
MsgListLens == 0..2
LogMsgLists == UNION {SeqsOfLen(LogMsgs, n) : n \in MsgListLens}
LogValues ==
    {None, Values(None)} \cup {Values(Some(l)) : l \in LogMsgLists}
LogCheckpoints == {Checkpoint(v, Some(<<>>), None) : v \in LogValues}
LogHistories ==
    {Some(h) : h \in UNION {SeqsOfLen(LogCheckpoints, n) : n \in 1..MaxCheckpoints}}

(* The inputs of the orchestration: latest checkpoints that are idle,     *)
(* busy, interrupted or malformed, alone or on top of an older checkpoint. *)
IdleCheckpoint == Checkpoint(Values(Some(<<MsgA1, MsgB1>>)), Some(<<>>), None)
BusyInterruptedCheckpoint ==
    Checkpoint(Values(Some(<<MsgA1>>)), Some(<<"node">>), TasksInterrupted)
LatestCheckpoints ==
    { IdleCheckpoint,
      BusyInterruptedCheckpoint,
      Checkpoint(None, None, Some(<<>>)),
      Checkpoint(Values(Some(<<MsgA1, MsgB1>>)), Some(<<"node">>),
                 TasksNoInterrupt),
      Checkpoint(Values(Some(<<MsgA1, MsgB1>>)), Some(<<>>), TasksInterrupted),
      Checkpoint(Values(None), Some(<<"node">>), TasksNullEntry),
      Checkpoint(Values(Some(<<MsgB1>>)), None, TasksInterruptThenNull),
      Checkpoint(Values(Some(<<MsgB1>>)), Some(<<>>), TasksUndefinedValue),
      Checkpoint(Values(Some(<<MsgA1, NullMsg>>)), Some(<<>>), None) }
OlderCheckpoints ==
    { Checkpoint(Values(Some(<<MsgA2, MsgC1>>)), Some(<<"node">>),
                 TasksOtherInterrupt) }
CtlHistories ==
    {Some(<<l>>) : l \in LatestCheckpoints}
        \cup {Some(<<l, o>>) : l \in {IdleCheckpoint, BusyInterruptedCheckpoint},
                                o \in OlderCheckpoints}
EmptyHistories == {None, Some(<<>>)}

RunLists ==
    { Some(<<>>),
      Some(<<Run("r2", "success"), Run("r1", "pending")>>),
      Some(<<Run("r1", "interrupted"), Run("r2", "error"),
             Run("r3", "timeout")>>),
      Some(<<Run("r1", "success"), Run("r2", "running"),
             Run("r3", "pending")>>) }

FinalStates ==
    { None,
      Some(Checkpoint(None, Some(<<>>), None)),
      Some(Checkpoint(None, Some(<<>>), TasksInterrupted)),
      Some(Checkpoint(None, Some(<<>>), TasksOtherInterrupt)) }

ConfigLimits == {None, Some(-1), Some(0), Some(1), Some(2), Some(1001)}
CtlConfigLimits == {None, Some(1)}

(***************************************************************************)
(* constructor                                                             *)
(***************************************************************************)
CtorHistoryLimit(configLimit) ==
    Min(IF IsSome(configLimit) THEN configLimit[1] ELSE DEFAULT_HISTORY_LIMIT,
        MAX_HISTORY_LIMIT)

(* An agent or a client is known by where it came from: handed in with the *)
(* configuration (id 0), or the id-th object the runner created.            *)
Instance(kind, origin, id) == [kind |-> kind, origin |-> origin, id |-> id]
ConfigAgent == Instance("agent", "config", 0)
ConfigClient == Instance("client", "config", 0)

Config(url, graph, client, limit, extractor) ==
    [agent |-> ConfigAgent, deploymentUrl |-> url, graphId |-> graph,
     client |-> client, langsmithApiKey |-> None, historyLimit |-> limit,
     clientTimeoutMs |-> None, stateExtractor |-> extractor]

(* !value of an optional string: undefined and "" are falsy *)
Falsy(value) == ~IsSome(value) \/ value[1] = ""

FrozenConfig(cfg) ==
    [deploymentUrl |-> cfg.deploymentUrl[1], graphId |-> cfg.graphId[1],
     langsmithApiKey |-> cfg.langsmithApiKey,
     clientTimeoutMs |-> IF IsSome(cfg.clientTimeoutMs)
                         THEN cfg.clientTimeoutMs[1] ELSE DEFAULT_TIMEOUT]

(* the identifiers are checked only when no custom client is given; with a *)
(* custom client the runner is built without a frozen configuration         *)
ConstructorClientUnchecked(cfg) ==
    [constructed |-> IsSome(cfg.client)
                        \/ ~(Falsy(cfg.deploymentUrl) \/ Falsy(cfg.graphId)),
     agent |-> [ref |-> cfg.agent, state |-> None],
     customClient |-> cfg.client,
     historyLimit |-> CtorHistoryLimit(cfg.historyLimit),
     frozenConfig |->
         IF IsSome(cfg.client) \/ Falsy(cfg.deploymentUrl) \/ Falsy(cfg.graphId)
         THEN None ELSE Some(FrozenConfig(cfg))]

(* new HistoryHydratingAgentRunner(cfg): the fields it assigns, and whether *)
(* it returned; both branches of `if (config.client)` check the same two    *)
(* identifiers and freeze the same record                                   *)
Constructor(cfg) ==
    [constructed |-> ~(Falsy(cfg.deploymentUrl) \/ Falsy(cfg.graphId)),
     agent |-> [ref |-> cfg.agent, state |-> None],
     customClient |-> cfg.client,
     historyLimit |-> CtorHistoryLimit(cfg.historyLimit),
     frozenConfig |->
         IF Falsy(cfg.deploymentUrl) \/ Falsy(cfg.graphId)
         THEN None ELSE Some(FrozenConfig(cfg))]

(* createIsolatedAgent(frozenConfig): an agent of its own for the caller *)
CreateIsolatedAgent(frozen, id) == Instance("agent", "request", id)

(* new Client({apiUrl, apiKey, timeoutMs}) wrapped by wrapSdkClient *)
NewSdkClient(frozen, id) == Instance("client", "request", id)

(* what a request was served by; NoInstance when it threw before that *)
NoInstance == Instance("none", "none", 0)
Served(op, instance, state) ==
    [op |-> op, instance |-> instance, threw |-> FALSE, state |-> state]
Failed(op) == [op |-> op, instance |-> NoInstance, threw |-> TRUE, state |-> None]

(* run(): request.input.state || {}, merged with the extractor's result *)
EmptyObject == [k \in {} |-> ""]
EnrichedState(inputState, extractor) ==
    LET existingState == IF IsSome(inputState) THEN inputState[1] ELSE EmptyObject
    IN  IF IsSome(extractor) THEN extractor[1] @@ existingState
        ELSE existingState

(* The configurations a runner is built from.  The hydration is studied    *)
(* on a platform-backed runner; the constructor on every combination of    *)
(* present, empty and absent identifiers, with and without a custom client. *)
DeploymentUrl == "https://deployment"
GraphId == "graph"
PlatformConfig(limit) ==
    Config(Some(DeploymentUrl), Some(GraphId), None, limit, None)
ExtractedState == "plan" :> "extracted"
InputStates == {None, Some("plan" :> "sent"), Some("topic" :> "sent")}
AnyConfigs ==
    {Config(url, graph, client, None, extractor) :
        url \in {None, Some(""), Some(DeploymentUrl)},
        graph \in {None, Some(""), Some(GraphId)},
        client \in {None, Some(ConfigClient)},
        extractor \in {None, Some(ExtractedState)}}

(***************************************************************************)
(* connect(): building the message log                                     *)
(***************************************************************************)
(* the checkpoints walked as returned, newest first *)
NoReverse(s) == s

Reverse(s) == [i \in 1..Len(s) |-> s[Len(s) + 1 - i]]

(* a null check that forgets the empty list *)
NullOnlyIsEmptyHistory(h) == ~IsSome(h)

IsEmptyHistory(h) == ~IsSome(h) \/ Len(h[1]) = 0

(* this.historyLimit handed to getHistory as it is *)
FetchLimitUnguarded(limit) == limit

FetchLimit(limit) == IF limit > 0 THEN limit ELSE DEFAULT_HISTORY_LIMIT

MessagesOf(checkpoint) ==
    IF IsSome(checkpoint.values) /\ IsSome(checkpoint.values[1].messages)
    THEN checkpoint.values[1].messages[1]
    ELSE <<>>

(* the messages of the latest checkpoint only *)
FlattenLatest(hist) == MessagesOf(hist[Len(hist)])

RECURSIVE Flatten(_)
Flatten(hist) ==
    IF hist = <<>> THEN <<>>
    ELSE MessagesOf(Head(hist)) \o Flatten(Tail(hist))

(* msg.id of a null entry raises a TypeError *)
BuildThrows(hist) ==
    LET flat == Flatten(hist) IN \E i \in 1..Len(flat) : IsNullEntry(flat[i])

(* a later version of an id replaces the one already in the log *)
RECURSIVE DedupWalkLastWins(_, _, _, _)
DedupWalkLastWins(flat, i, seen, acc) ==
    IF i > Len(flat) THEN acc
    ELSE IF flat[i].id \in seen
         THEN DedupWalkLastWins(flat, i + 1, seen,
                  [k \in 1..Len(acc) |->
                      IF acc[k].id = flat[i].id THEN flat[i] ELSE acc[k]])
         ELSE DedupWalkLastWins(flat, i + 1, seen \cup {flat[i].id},
                                Append(acc, flat[i]))

RECURSIVE DedupWalk(_, _, _, _)
DedupWalk(flat, i, seen, acc) ==
    IF i > Len(flat) THEN acc
    ELSE IF flat[i].id \in seen
         THEN DedupWalk(flat, i + 1, seen, acc)
         ELSE DedupWalk(flat, i + 1, seen \cup {flat[i].id}, Append(acc, flat[i]))

Dedup(hist) == DedupWalk(Flatten(hist), 1, {}, <<>>)

SliceLast(s, k) ==
    IF k >= Len(s) THEN s ELSE SubSeq(s, Len(s) - k + 1, Len(s))

(* slice(0, limit): the oldest entries instead of the newest *)
ApplyLimitFromStart(all, limit) ==
    IF limit > 0 THEN SubSeq(all, 1, Min(limit, Len(all))) ELSE all

ApplyLimit(all, limit) == IF limit > 0 THEN SliceLast(all, limit) ELSE all

RoleOf(type) == IF type = "ai" THEN "agent" ELSE type
TransformMessage(m) == [id |-> m.id, role |-> RoleOf(m.type), content |-> m.content]
TransformMessages(msgs) == [i \in 1..Len(msgs) |-> TransformMessage(msgs[i])]

(***************************************************************************)
(* connect(): the latest checkpoint                                        *)
(***************************************************************************)
(* history[0] after the reversal: the oldest checkpoint *)
OldestState(hist) == hist[1]

LatestState(hist) == hist[Len(hist)]

HasInterrupts(task) == IsSome(task.interrupts) /\ Len(task.interrupts[1]) > 0

(* tasks?.find(task => task.interrupts && task.interrupts.length > 0):     *)
(* the index found, 0 for none, -1 when a null entry is reached (TypeError) *)
RECURSIVE FindFrom(_, _)
FindFrom(tasks, i) ==
    IF i > Len(tasks) THEN 0
    ELSE IF tasks[i].kind = "null" THEN -1
    ELSE IF HasInterrupts(tasks[i]) THEN i
    ELSE FindFrom(tasks, i + 1)

FindInterruptedTask(state) ==
    IF IsSome(state.tasks) THEN FindFrom(state.tasks[1], 1) ELSE 0

InterruptValue(state) ==
    state.tasks[1][FindInterruptedTask(state)].interrupts[1][1].value

(* JSON.stringify: undefined stays undefined, a string is quoted *)
Stringify(value) ==
    IF IsSome(value) THEN Some("\"" \o value[1] \o "\"") ELSE None

(* the busy check dropped: every thread counts as busy *)
AlwaysBusy(state) == TRUE

IsThreadBusy(state) == IsSome(state.next) /\ Len(state.next[1]) > 0

(* every run that did not succeed counts as active *)
IsUnfinished(run) == run.status # "success"

IsActive(run) == run.status = "running" \/ run.status = "pending"

RECURSIVE FindActiveFrom(_, _)
FindActiveFrom(runs, i) ==
    IF i > Len(runs) THEN 0
    ELSE IF IsActive(runs[i]) THEN i
    ELSE FindActiveFrom(runs, i + 1)

(* the last running or pending run instead of the first *)
FindLastActiveRun(runs) ==
    IF IsSome(runs) /\ \E k \in 1..Len(runs[1]) : IsActive(runs[1][k])
    THEN CHOOSE k \in 1..Len(runs[1]) :
             /\ IsActive(runs[1][k])
             /\ \A m \in (k + 1)..Len(runs[1]) : ~IsActive(runs[1][m])
    ELSE 0

FindActiveRun(runs) == IF IsSome(runs) THEN FindActiveFrom(runs[1], 1) ELSE 0

(***************************************************************************)
(* The joined stream's chunks and their translation (processStreamChunk)   *)
(***************************************************************************)
Chunk(kind, id, newRunId) == [kind |-> kind, id |-> id, runId |-> newRunId]

Chunks ==
    { Chunk("msg_start", "m1", ""),
      Chunk("msg_content", "m1", ""),
      Chunk("msg_end", "m1", ""),
      Chunk("msg_content", "m2", "r9"),
      Chunk("tool_args", "t1", ""),
      Chunk("state", "P1", ""),
      Chunk("malformed", "", "") }

NoState == "none"

MessageKinds == {"msg_start", "msg_content", "msg_end"}
ToolKinds == {"tool_start", "tool_args", "tool_end"}

EventOfKind(kind) ==
    CASE kind = "msg_start" -> "TEXT_MESSAGE_CONTENT"
      [] kind = "msg_content" -> "TEXT_MESSAGE_CONTENT"
      [] kind = "msg_end" -> "TEXT_MESSAGE_END"
      [] kind = "tool_start" -> "TOOL_CALL_ARGS"
      [] kind = "tool_args" -> "TOOL_CALL_ARGS"
      [] kind = "tool_end" -> "TOOL_CALL_END"

Entry(kind, name, rid, data) ==
    [kind |-> kind, name |-> name, threadId |-> threadId, runId |-> rid,
     data |-> data]
Ev(type, rid, data) == Entry("next", type, rid, data)
Call(name, data) == Entry("call", name, "", data)
Return(name, data) == Entry("return", name, "", data)
Throw(name) == Entry("throw", name, "", None)
Complete == Entry("complete", "", "", None)

ChunkRunId(chunk, rid) == IF chunk.runId # "" THEN chunk.runId ELSE rid

(* the start event of an id that this join has not opened yet *)
StartEvents(type, id, started, rid) ==
    IF id \in started THEN <<>> ELSE <<Ev(type, rid, id)>>

ProcessStreamChunk(chunk, rid, started, startedTools, emitted) ==
    LET newRid == ChunkRunId(chunk, rid)
        same == [throws |-> FALSE, events |-> <<>>, runId |-> newRid,
                 startedMessages |-> started, startedToolCalls |-> startedTools,
                 manuallyEmittedState |-> emitted]
    IN  CASE chunk.kind = "malformed" -> [same EXCEPT !.throws = TRUE]
          [] chunk.kind \in MessageKinds ->
                [same EXCEPT
                   !.events = StartEvents("TEXT_MESSAGE_START", chunk.id, started, newRid)
                                \o <<Ev(EventOfKind(chunk.kind), newRid, chunk.id)>>,
                   !.startedMessages = started \cup {chunk.id}]
          [] chunk.kind \in ToolKinds ->
                [same EXCEPT
                   !.events = StartEvents("TOOL_CALL_START", chunk.id, startedTools, newRid)
                                \o <<Ev(EventOfKind(chunk.kind), newRid, chunk.id)>>,
                   !.startedToolCalls = startedTools \cup {chunk.id}]
          [] chunk.kind = "state" ->
                IF emitted = chunk.id THEN same
                ELSE [same EXCEPT
                        !.events = <<Ev("STATE_SNAPSHOT", newRid, chunk.id)>>,
                        !.manuallyEmittedState = chunk.id]
          [] OTHER -> same

(* sets that outlive a join and still hold the ids of an earlier one *)
StaleStartedSet == {"m1", "t1"}

(* const startedMessages = new Set(), const startedToolCalls = new Set() *)
NewStartedSet == {}

(***************************************************************************)
(* The events of connect() and joinAndProcessStream()                      *)
(***************************************************************************)
EmptyHistoryRunId(nonce) == "hydration_" \o nonce
ErrorRunId(nonce) == "hydration_error_" \o nonce
GeneratedRunId(nonce) == "hydration_" \o nonce

(* the three events of a fallback, then complete *)
Handshake(rid) ==
    <<Ev("RUN_STARTED", rid, None), Ev("MESSAGES_SNAPSHOT", rid, <<>>),
      Ev("RUN_FINISHED", rid, None), Complete>>

(* an exception raised by hydrate()'s own code, and its catch block *)
CatchFallback(nonce) == <<Throw("TypeError")>> \o Handshake(ErrorRunId(nonce))

(* a failed fetch handed to subscriber.error instead of the fallback *)
FetchErrorPropagated(nonce) ==
    <<Throw("getHistory"), Entry("error", "", "", None)>>

(* the catch block after a failed getHistory *)
FetchFallback(nonce) == <<Throw("getHistory")>> \o Handshake(ErrorRunId(nonce))

(* the oldest run of the list instead of the most recent *)
LastRunId(runs, nonce) ==
    IF IsSome(runs) /\ Len(runs[1]) > 0 THEN runs[1][Len(runs[1])].run_id
    ELSE GeneratedRunId(nonce)

FirstRunId(runs, nonce) ==
    IF IsSome(runs) /\ Len(runs[1]) > 0 THEN runs[1][1].run_id
    ELSE GeneratedRunId(nonce)

StateSnapshotEvents(state, rid) ==
    IF IsSome(state.values) THEN <<Ev("STATE_SNAPSHOT", rid, state.values[1])>>
    ELSE <<>>

InterruptEvent(state, rid) ==
    Ev("CUSTOM", rid,
       [name |-> "on_interrupt", value |-> Stringify(InterruptValue(state)),
        raw |-> InterruptValue(state)])

InterruptEvents(state, rid) ==
    IF FindInterruptedTask(state) > 0 THEN <<InterruptEvent(state, rid)>>
    ELSE <<>>

(* the state snapshot sent ahead of RUN_STARTED *)
SnapshotEventsStateFirst(msgs, state, rid) ==
    StateSnapshotEvents(state, rid)
        \o <<Ev("RUN_STARTED", rid, None), Ev("MESSAGES_SNAPSHOT", rid, msgs)>>

SnapshotEvents(msgs, state, rid) ==
    <<Ev("RUN_STARTED", rid, None), Ev("MESSAGES_SNAPSHOT", rid, msgs)>>
        \o StateSnapshotEvents(state, rid)

(***************************************************************************)
(* Initial state: a constructed runner, no request yet                     *)
(***************************************************************************)
NotStarted ==
    [threadId |-> "", pc |-> "idle", history |-> None, allMessages |-> <<>>,
     limitedMessages |-> <<>>, transformedMessages |-> <<>>, runId |-> "",
     joinRunId |-> "", currentRunId |-> "", manuallyEmittedState |-> NoState,
     startedMessages |-> {}, startedToolCalls |-> {}, chunksRead |-> 0,
     trace |-> <<>>]

InitWith(configs) ==
    /\ config \in configs
    /\ constructed = Constructor(config).constructed
    /\ agent = Constructor(config).agent
    /\ customClient = Constructor(config).customClient
    /\ frozenConfig = Constructor(config).frozenConfig
    /\ historyLimit = Constructor(config).historyLimit
    /\ instances = 0
    /\ requests = <<>>
    /\ other = NotStarted
    /\ activeRun = NoState
    /\ threadId = ""
    /\ pc = "idle"
    /\ history = None
    /\ allMessages = <<>>
    /\ limitedMessages = <<>>
    /\ transformedMessages = <<>>
    /\ runId = ""
    /\ joinRunId = ""
    /\ currentRunId = ""
    /\ manuallyEmittedState = NoState
    /\ startedMessages = {}
    /\ startedToolCalls = {}
    /\ chunksRead = 0
    /\ trace = <<>>

Init == InitWith({PlatformConfig(c) : c \in CtlConfigLimits})
InitLog == InitWith({PlatformConfig(c) : c \in ConfigLimits})
InitRunner == InitWith(AnyConfigs)

(***************************************************************************)
(* connect(request): subscribe, hydrate() issues getHistory                *)
(***************************************************************************)
Connect(t) ==
    /\ constructed
    /\ pc = "idle"
    /\ IF IsSome(customClient)
       THEN /\ requests' = Append(requests, Served("connect", customClient[1], None))
            /\ UNCHANGED instances
       ELSE IF IsSome(frozenConfig)
       THEN /\ instances' = instances + 1
            /\ requests' = Append(requests,
                   Served("connect", NewSdkClient(frozenConfig[1], instances'), None))
       ELSE /\ requests' = Append(requests, Failed("connect"))
            /\ UNCHANGED instances
    /\ IF requests'[Len(requests')].threw
       THEN UNCHANGED <<threadId, pc, trace>>
       ELSE /\ threadId' = t
            /\ pc' = "getHistory"
            /\ trace' = <<[kind |-> "call", name |-> "getHistory", threadId |-> t,
                           runId |-> "", data |-> FetchLimit(historyLimit)]>>
    /\ UNCHANGED <<other, ctorVars, agent, historyLimit, activeRun, logVars, runId,
                   joinVars>>

(* run(request): the agent the request is dispatched on, with the enriched *)
(* state set on it                                                         *)
RunRequest(inputState) ==
    /\ constructed
    /\ Cardinality({i \in 1..Len(requests) : requests[i].op = "run"}) < MaxRuns
    /\ LET enrichedState == EnrichedState(inputState, config.stateExtractor) IN
       IF IsSome(customClient)
       THEN /\ agent' = [agent EXCEPT !.state = Some(enrichedState)]
            /\ requests' = Append(requests,
                   Served("run", agent.ref, Some(enrichedState)))
            /\ UNCHANGED instances
       ELSE IF IsSome(frozenConfig)
       THEN /\ instances' = instances + 1
            /\ requests' = Append(requests,
                   Served("run", CreateIsolatedAgent(frozenConfig[1], instances'),
                          Some(enrichedState)))
            /\ UNCHANGED agent
       ELSE /\ requests' = Append(requests, Failed("run"))
            /\ UNCHANGED <<agent, instances>>
    /\ UNCHANGED <<other, ctorVars, historyLimit, activeRun, threadId, pc, logVars,
                   runId, joinVars, trace>>

Requested(ops) == Cardinality({i \in 1..Len(requests) : requests[i].op \in ops})

(* isRunning(): reads the flag of this.agent *)
IsRunning ==
    /\ constructed
    /\ Requested({"isRunning", "stop"}) < MaxRuns
    /\ requests' = Append(requests, Served("isRunning", agent.ref, None))
    /\ UNCHANGED <<other, ctorVars, agent, instances, historyLimit, activeRun,
                   threadId, pc, logVars, runId, joinVars, trace>>

(* stop(request): calls abortRun() on this.agent *)
Stop ==
    /\ constructed
    /\ Requested({"isRunning", "stop"}) < MaxRuns
    /\ requests' = Append(requests, Served("stop", agent.ref, None))
    /\ UNCHANGED <<other, ctorVars, agent, instances, historyLimit, activeRun,
                   threadId, pc, logVars, runId, joinVars, trace>>

GetHistoryFails(nonce) ==
    /\ pc = "getHistory"
    /\ pc' = "done"
    /\ trace' = trace \o FetchFallback(nonce)
    /\ UNCHANGED <<other, runnerVars, logVars, runId, joinVars>>

(* getHistory returns h: the empty check, the log, and the first runs.list *)
GetHistoryReturns(h, nonce) ==
    /\ pc = "getHistory"
    /\ IF IsEmptyHistory(h)
       THEN /\ pc' = "done"
            /\ history' = h
            /\ trace' = trace \o <<Return("getHistory", h)>>
                              \o Handshake(EmptyHistoryRunId(nonce))
            /\ UNCHANGED <<allMessages, limitedMessages, transformedMessages>>
       ELSE LET reversed == Reverse(h[1]) IN
            /\ history' = Some(reversed)
            /\ IF BuildThrows(reversed)
               THEN /\ pc' = "done"
                    /\ trace' = trace \o <<Return("getHistory", h)>>
                                      \o CatchFallback(nonce)
                    /\ UNCHANGED <<allMessages, limitedMessages,
                                   transformedMessages>>
               ELSE /\ pc' = "listRuns1"
                    /\ allMessages' = Dedup(reversed)
                    /\ limitedMessages' = ApplyLimit(allMessages', historyLimit)
                    /\ transformedMessages' = TransformMessages(limitedMessages')
                    /\ trace' = trace \o <<Return("getHistory", h),
                                           Call("runs.list", None)>>
    /\ UNCHANGED <<other, runnerVars, runId, joinVars>>

HistoryArrives ==
    /\ pc = "getHistory"
    /\ \E h \in EmptyHistories \cup CtlHistories, n \in Nonces :
           GetHistoryReturns(h, n)

LogHistoryArrives ==
    /\ pc = "getHistory"
    /\ \E h \in LogHistories, n \in Nonces : GetHistoryReturns(h, n)

(* after the first runs.list: the snapshot events, the interrupt check, the *)
(* busy check, and either RUN_FINISHED or the second runs.list.  `outcome`  *)
(* is the trace entry of the call's return or failure.                      *)
EmitSnapshot(outcome, rid, catchNonce) ==
    LET state == LatestState(history[1])
        snapshot == SnapshotEvents(transformedMessages, state, rid)
    IN  /\ runId' = rid
        /\ IF FindInterruptedTask(state) < 0
           THEN /\ pc' = "done"
                /\ trace' = trace \o <<outcome>> \o snapshot
                                  \o CatchFallback(catchNonce)
           ELSE IF IsThreadBusy(state)
           THEN /\ pc' = "listRuns2"
                /\ trace' = trace \o <<outcome>> \o snapshot
                                  \o InterruptEvents(state, rid)
                                  \o <<Call("runs.list", None)>>
           ELSE /\ pc' = "done"
                /\ trace' = trace \o <<outcome>> \o snapshot
                                  \o InterruptEvents(state, rid)
                                  \o <<Ev("RUN_FINISHED", rid, None), Complete>>
        /\ UNCHANGED <<other, runnerVars, logVars, joinVars>>

RunsList1Returns(runs, nonce, catchNonce) ==
    /\ pc = "listRuns1"
    /\ EmitSnapshot(Return("runs.list", runs), FirstRunId(runs, nonce), catchNonce)

RunsList1Fails(nonce, catchNonce) ==
    /\ pc = "listRuns1"
    /\ EmitSnapshot(Throw("runs.list"), GeneratedRunId(nonce), catchNonce)

(* RUN_FINISHED sent before the join is opened *)
JoinOrFinishEarly(outcome, runs) ==
    IF FindActiveRun(runs) > 0
    THEN /\ pc' = "joinStream"
         /\ joinRunId' = runs[1][FindActiveRun(runs)].run_id
         /\ startedMessages' = NewStartedSet
         /\ startedToolCalls' = NewStartedSet
         /\ trace' = trace \o <<outcome, Ev("RUN_FINISHED", runId, None),
                        Call("joinStream", runs[1][FindActiveRun(runs)].run_id)>>
         /\ UNCHANGED <<other, runnerVars, logVars, runId, currentRunId,
                        manuallyEmittedState, chunksRead>>
    ELSE /\ pc' = "done"
         /\ trace' = trace \o <<outcome, Ev("RUN_FINISHED", runId, None), Complete>>
         /\ UNCHANGED <<other, runnerVars, logVars, runId, joinVars>>

(* the two sets kept on the runner instead of created by each join *)
JoinOrFinishKeepsSets(outcome, runs) ==
    IF FindActiveRun(runs) > 0
    THEN /\ pc' = "joinStream"
         /\ joinRunId' = runs[1][FindActiveRun(runs)].run_id
         /\ startedMessages' = other.startedMessages
         /\ startedToolCalls' = other.startedToolCalls
         /\ trace' = trace \o <<outcome,
                        Call("joinStream", runs[1][FindActiveRun(runs)].run_id)>>
         /\ UNCHANGED <<other, runnerVars, logVars, runId, currentRunId,
                        manuallyEmittedState, chunksRead>>
    ELSE /\ pc' = "done"
         /\ trace' = trace \o <<outcome, Ev("RUN_FINISHED", runId, None), Complete>>
         /\ UNCHANGED <<other, runnerVars, logVars, runId, joinVars>>

(* after the active-run check: joinAndProcessStream, or RUN_FINISHED *)
JoinOrFinish(outcome, runs) ==
    IF FindActiveRun(runs) > 0
    THEN /\ pc' = "joinStream"
         /\ joinRunId' = runs[1][FindActiveRun(runs)].run_id
         /\ startedMessages' = NewStartedSet
         /\ startedToolCalls' = NewStartedSet
         /\ trace' = trace \o <<outcome,
                        Call("joinStream", runs[1][FindActiveRun(runs)].run_id)>>
         /\ UNCHANGED <<other, runnerVars, logVars, runId, currentRunId,
                        manuallyEmittedState, chunksRead>>
    ELSE /\ pc' = "done"
         /\ trace' = trace \o <<outcome, Ev("RUN_FINISHED", runId, None), Complete>>
         /\ UNCHANGED <<other, runnerVars, logVars, runId, joinVars>>

RunsList2Returns(runs) ==
    /\ pc = "listRuns2"
    /\ JoinOrFinish(Return("runs.list", runs), runs)

RunsList2Fails ==
    /\ pc = "listRuns2"
    /\ JoinOrFinish(Throw("runs.list"), None)

(* the join failure handed to subscriber.error *)
JoinCatchError(rid) ==
    <<Ev("RUN_FINISHED", rid, None), Entry("error", "", "", None)>>

(* the rethrown join failure ends hydrate() before subscriber.complete() *)
JoinCatchUnhandled(rid) == <<Ev("RUN_FINISHED", rid, None)>>

(* the catch block of joinAndProcessStream, then the catch around the call *)
(* in connect(), then subscriber.complete()                                *)
JoinCatch(rid) == <<Ev("RUN_FINISHED", rid, None), Complete>>

JoinStreamThrows ==
    /\ pc = "joinStream"
    /\ pc' = "done"
    /\ trace' = trace \o <<Throw("joinStream")>> \o JoinCatch(joinRunId)
    /\ UNCHANGED <<other, runnerVars, logVars, runId, joinVars>>

(* a join that starts from no emitted state instead of the runner's field *)
JoinStreamOpensFresh ==
    /\ pc = "joinStream"
    /\ pc' = "read"
    /\ currentRunId' = joinRunId
    /\ manuallyEmittedState' = NoState
    /\ trace' = trace \o <<Return("joinStream", None), Call("read", None)>>
    /\ UNCHANGED <<other, runnerVars, logVars, runId, joinRunId, startedMessages,
                   startedToolCalls, chunksRead>>

JoinStreamOpens ==
    /\ pc = "joinStream"
    /\ pc' = "read"
    /\ currentRunId' = joinRunId
    /\ manuallyEmittedState' = activeRun
    /\ trace' = trace \o <<Return("joinStream", None), Call("read", None)>>
    /\ UNCHANGED <<other, runnerVars, logVars, runId, joinRunId, startedMessages,
                   startedToolCalls, chunksRead>>

(* a chunk the translator rejects ends the join: the exception reaches the *)
(* catch block of joinAndProcessStream                                     *)
ChunkArrivesAbort(chunk) ==
    /\ pc = "read"
    /\ chunksRead < MaxChunks
    /\ chunksRead' = chunksRead + 1
    /\ LET result == ProcessStreamChunk(chunk, currentRunId, startedMessages,
                                        startedToolCalls, manuallyEmittedState)
       IN  IF result.throws
           THEN /\ trace' = trace \o <<Return("read", Some(chunk)),
                                      Throw("processStreamChunk")>>
                                  \o JoinCatch(joinRunId)
                /\ pc' = "done"
                /\ UNCHANGED <<currentRunId, manuallyEmittedState,
                               startedMessages, startedToolCalls>>
           ELSE /\ trace' = trace \o <<Return("read", Some(chunk))>>
                                  \o result.events \o <<Call("read", None)>>
                /\ pc' = "read"
                /\ currentRunId' = result.runId
                /\ manuallyEmittedState' = result.manuallyEmittedState
                /\ startedMessages' = result.startedMessages
                /\ startedToolCalls' = result.startedToolCalls
    /\ UNCHANGED <<other, runnerVars, logVars, runId, joinRunId>>

(* the started sets created anew for every chunk instead of once per join *)
ChunkArrivesFreshSets(chunk) ==
    /\ pc = "read"
    /\ chunksRead < MaxChunks
    /\ chunksRead' = chunksRead + 1
    /\ LET result == ProcessStreamChunk(chunk, currentRunId, NewStartedSet,
                                        NewStartedSet, manuallyEmittedState)
       IN  IF result.throws
           THEN /\ trace' = trace \o <<Return("read", Some(chunk)),
                                      Throw("processStreamChunk"),
                                      Call("read", None)>>
                /\ UNCHANGED <<currentRunId, manuallyEmittedState,
                               startedMessages, startedToolCalls>>
           ELSE /\ trace' = trace \o <<Return("read", Some(chunk))>>
                                  \o result.events \o <<Call("read", None)>>
                /\ currentRunId' = result.runId
                /\ manuallyEmittedState' = result.manuallyEmittedState
                /\ startedMessages' = result.startedMessages
                /\ startedToolCalls' = result.startedToolCalls
    /\ UNCHANGED <<other, runnerVars, logVars, runId, joinRunId, pc>>

(* the next chunk asked for before the translation of this one has run *)
ChunkArrivesPrefetch(chunk) ==
    /\ pc = "read"
    /\ chunksRead < MaxChunks
    /\ chunksRead' = chunksRead + 1
    /\ LET result == ProcessStreamChunk(chunk, currentRunId, startedMessages,
                                        startedToolCalls, manuallyEmittedState)
       IN  IF result.throws
           THEN /\ trace' = trace \o <<Return("read", Some(chunk)),
                                      Call("read", None),
                                      Throw("processStreamChunk")>>
                /\ UNCHANGED <<currentRunId, manuallyEmittedState,
                               startedMessages, startedToolCalls>>
           ELSE /\ trace' = trace \o <<Return("read", Some(chunk)),
                                      Call("read", None)>>
                                  \o result.events
                /\ currentRunId' = result.runId
                /\ manuallyEmittedState' = result.manuallyEmittedState
                /\ startedMessages' = result.startedMessages
                /\ startedToolCalls' = result.startedToolCalls
    /\ UNCHANGED <<other, runnerVars, logVars, runId, joinRunId, pc>>

ChunkArrives(chunk) ==
    /\ pc = "read"
    /\ chunksRead < MaxChunks
    /\ chunksRead' = chunksRead + 1
    /\ LET result == ProcessStreamChunk(chunk, currentRunId, startedMessages,
                                        startedToolCalls, manuallyEmittedState)
       IN  IF result.throws
           THEN /\ trace' = trace \o <<Return("read", Some(chunk)),
                                      Throw("processStreamChunk"),
                                      Call("read", None)>>
                /\ UNCHANGED <<currentRunId, manuallyEmittedState,
                               startedMessages, startedToolCalls>>
           ELSE /\ trace' = trace \o <<Return("read", Some(chunk))>>
                                  \o result.events \o <<Call("read", None)>>
                /\ currentRunId' = result.runId
                /\ manuallyEmittedState' = result.manuallyEmittedState
                /\ startedMessages' = result.startedMessages
                /\ startedToolCalls' = result.startedToolCalls
    /\ UNCHANGED <<other, runnerVars, logVars, runId, joinRunId, pc>>

StreamEnds ==
    /\ pc = "read"
    /\ pc' = "getState"
    /\ activeRun' = manuallyEmittedState
    /\ trace' = trace \o <<Return("read", None), Call("getState", None)>>
    /\ UNCHANGED <<other, ctorVars, requestVars, historyLimit, threadId, logVars,
                   runId, joinVars>>

(* the write-back of manuallyEmittedState done in the catch block as well *)
StreamFailsWriteBack ==
    /\ pc = "read"
    /\ pc' = "done"
    /\ activeRun' = manuallyEmittedState
    /\ trace' = trace \o <<Throw("read")>> \o JoinCatch(joinRunId)
    /\ UNCHANGED <<other, ctorVars, requestVars, historyLimit, threadId, logVars,
                   runId, joinVars>>

StreamFails ==
    /\ pc = "read"
    /\ pc' = "done"
    /\ trace' = trace \o <<Throw("read")>> \o JoinCatch(joinRunId)
    /\ UNCHANGED <<other, runnerVars, logVars, runId, joinVars>>

(* the interrupt check of the final state; a null state or a null task     *)
(* raises inside the try and only skips the event                          *)
FinalInterruptEvents(state, rid) ==
    IF IsSome(state) THEN InterruptEvents(state[1], rid) ELSE <<>>

(* RUN_FINISHED sent as soon as getState returns, ahead of the interrupt *)
GetStateReturnsFinishFirst(state) ==
    /\ pc = "getState"
    /\ pc' = "done"
    /\ trace' = trace \o <<Return("getState", state),
                           Ev("RUN_FINISHED", currentRunId, None)>>
                      \o FinalInterruptEvents(state, currentRunId)
                      \o <<Complete>>
    /\ UNCHANGED <<other, runnerVars, logVars, runId, joinVars>>

GetStateReturns(state) ==
    /\ pc = "getState"
    /\ pc' = "done"
    /\ trace' = trace \o <<Return("getState", state)>>
                      \o FinalInterruptEvents(state, currentRunId)
                      \o <<Ev("RUN_FINISHED", currentRunId, None), Complete>>
    /\ UNCHANGED <<other, runnerVars, logVars, runId, joinVars>>

(* the getState failure reaches the catch block of joinAndProcessStream *)
GetStateFailsUncaught ==
    /\ pc = "getState"
    /\ pc' = "done"
    /\ trace' = trace \o <<Throw("getState")>> \o JoinCatch(joinRunId)
    /\ UNCHANGED <<other, runnerVars, logVars, runId, joinVars>>

GetStateFails ==
    /\ pc = "getState"
    /\ pc' = "done"
    /\ trace' = trace \o <<Throw("getState"),
                           Ev("RUN_FINISHED", currentRunId, None), Complete>>
    /\ UNCHANGED <<other, runnerVars, logVars, runId, joinVars>>

Next ==
    \/ \E t \in Threads : Connect(t)
    \/ \E n \in Nonces : GetHistoryFails(n)
    \/ HistoryArrives
    \/ \E runs \in RunLists, n, c \in Nonces : RunsList1Returns(runs, n, c)
    \/ \E n, c \in Nonces : RunsList1Fails(n, c)
    \/ \E runs \in RunLists : RunsList2Returns(runs)
    \/ RunsList2Fails
    \/ JoinStreamThrows
    \/ JoinStreamOpens
    \/ \E chunk \in Chunks : ChunkArrives(chunk)
    \/ StreamEnds
    \/ StreamFails
    \/ \E state \in FinalStates : GetStateReturns(state)
    \/ GetStateFails

Spec == Init /\ [][Next]_vars

(* the log builder alone, over every history of LogHistories *)
NextLog ==
    \/ \E t \in Threads : Connect(t)
    \/ LogHistoryArrives

SpecLog == InitLog /\ [][NextLog]_vars

(***************************************************************************)
(* Several subscriptions of one runner.  this.activeRun belongs to the     *)
(* runner; everything else belongs to one hydrate().  The inputs are those *)
(* of a busy thread with an active run whose stream carries state chunks.  *)
(***************************************************************************)
SessThreads == {"tA", "tB"}
SessHistories ==
    {Some(<<Checkpoint(Values(Some(<<MsgA1>>)), Some(<<"node">>),
                       TasksNoInterrupt)>>)}
SessRunLists == {Some(<<Run("r1", "running")>>), Some(<<Run("r2", "pending")>>)}
SessChunks == {Chunk("state", "P1", ""), Chunk("state", "P2", "")}

SessHistoryArrives ==
    /\ pc = "getHistory"
    /\ \E h \in SessHistories : GetHistoryReturns(h, "x")

SessRunsListed ==
    /\ pc = "listRuns1"
    /\ \E runs \in SessRunLists : RunsList1Returns(runs, "x", "x")

SessNext ==
    \/ \E t \in SessThreads : Connect(t)
    \/ SessHistoryArrives
    \/ SessRunsListed
    \/ \E runs \in SessRunLists : RunsList2Returns(runs)
    \/ JoinStreamOpens
    \/ \E chunk \in SessChunks : ChunkArrives(chunk)
    \/ StreamEnds
    \/ StreamFails
    \/ GetStateReturns(None)
    \/ GetStateFails

(* the hydrate() that is running is put aside and the other one runs *)
Switch ==
    /\ other' = Locals
    /\ threadId' = other.threadId
    /\ pc' = other.pc
    /\ history' = other.history
    /\ allMessages' = other.allMessages
    /\ limitedMessages' = other.limitedMessages
    /\ transformedMessages' = other.transformedMessages
    /\ runId' = other.runId
    /\ joinRunId' = other.joinRunId
    /\ currentRunId' = other.currentRunId
    /\ manuallyEmittedState' = other.manuallyEmittedState
    /\ startedMessages' = other.startedMessages
    /\ startedToolCalls' = other.startedToolCalls
    /\ chunksRead' = other.chunksRead
    /\ trace' = other.trace
    /\ UNCHANGED <<ctorVars, requestVars, historyLimit, activeRun>>

(* connect() is called again on the runner after a hydration is over *)
Reconnect ==
    /\ pc = "done"
    /\ other.pc = "idle"
    /\ Switch

(* a hydrate() waits at an await and the event loop runs the other one,    *)
(* which has not started yet or waits at an await of its own                *)
Yield ==
    /\ pc # "idle"
    /\ other.pc # "done"
    /\ Switch

(* the consumer unsubscribes; the function given to new Observable returns *)
(* no teardown, so hydrate() is not told                                    *)
Unsubscribe ==
    /\ pc \notin {"idle", "done"}
    /\ \A i \in 1..Len(trace) : trace[i].kind # "unsubscribe"
    /\ trace' = Append(trace, Entry("unsubscribe", "", "", None))
    /\ UNCHANGED <<other, runnerVars, pc, logVars, runId, joinVars>>

NextUnsub == SessNext \/ Unsubscribe
SpecUnsub == Init /\ [][NextUnsub]_vars

NextRejoin == SessNext \/ Reconnect
SpecRejoin == Init /\ [][NextRejoin]_vars

NextConc == SessNext \/ Yield
SpecConc == Init /\ [][NextConc]_vars

(***************************************************************************)
(* The join alone: a busy thread with an active run, and every stream of   *)
(* Chunks, every failure of the join and every final state.                *)
(***************************************************************************)
NextJoin ==
    \/ \E t \in Threads : Connect(t)
    \/ SessHistoryArrives
    \/ SessRunsListed
    \/ \E runs \in SessRunLists : RunsList2Returns(runs)
    \/ JoinStreamThrows
    \/ JoinStreamOpens
    \/ \E chunk \in Chunks : ChunkArrives(chunk)
    \/ StreamEnds
    \/ StreamFails
    \/ \E state \in FinalStates : GetStateReturns(state)
    \/ GetStateFails

SpecJoin == Init /\ [][NextJoin]_vars

(***************************************************************************)
(* A join after a join on one thread: the first stream carries message,    *)
(* tool-call and state chunks, then connect() is called again               *)
(***************************************************************************)
RestartChunks ==
    { Chunk("msg_content", "m1", ""),
      Chunk("tool_args", "t1", ""),
      Chunk("state", "P1", "") }

NextRestart ==
    \/ \E t \in Threads : Connect(t)
    \/ SessHistoryArrives
    \/ SessRunsListed
    \/ \E runs \in SessRunLists : RunsList2Returns(runs)
    \/ JoinStreamThrows
    \/ JoinStreamOpens
    \/ \E chunk \in RestartChunks : ChunkArrives(chunk)
    \/ StreamEnds
    \/ StreamFails
    \/ GetStateReturns(None)
    \/ GetStateFails
    \/ Reconnect

SpecRestart == Init /\ [][NextRestart]_vars

(***************************************************************************)
(* The snapshot phase: every history of CtlHistories, every outcome of the *)
(* two runs.list calls, and a join whose stream carries no chunk            *)
(***************************************************************************)
NextSnapshot ==
    \/ \E t \in Threads : Connect(t)
    \/ HistoryArrives
    \/ \E runs \in RunLists, n, c \in Nonces : RunsList1Returns(runs, n, c)
    \/ \E n, c \in Nonces : RunsList1Fails(n, c)
    \/ \E runs \in RunLists : RunsList2Returns(runs)
    \/ RunsList2Fails
    \/ JoinStreamThrows
    \/ JoinStreamOpens
    \/ StreamEnds
    \/ StreamFails
    \/ \E state \in FinalStates : GetStateReturns(state)
    \/ GetStateFails

SpecSnapshot == Init /\ [][NextSnapshot]_vars

(***************************************************************************)
(* The requests of one runner: run() calls and connect() calls one after   *)
(* the other, on a runner built from any configuration.  The backend keeps  *)
(* each hydration short: getHistory fails or returns no checkpoint.         *)
(***************************************************************************)
EmptyHistoryArrives ==
    /\ pc = "getHistory"
    /\ \E h \in EmptyHistories : GetHistoryReturns(h, "x")

NextRunner ==
    \/ \E inputState \in InputStates : RunRequest(inputState)
    \/ \E t \in Threads : Connect(t)
    \/ GetHistoryFails("x")
    \/ EmptyHistoryArrives
    \/ Reconnect

SpecRunner == InitRunner /\ [][NextRunner]_vars

(***************************************************************************)
(* Executions and their control: run(), isRunning() and stop() calls in    *)
(* any order, on a runner built from any configuration                      *)
(***************************************************************************)
NextControl ==
    \/ \E inputState \in InputStates : RunRequest(inputState)
    \/ IsRunning
    \/ Stop

SpecControl == InitRunner /\ [][NextControl]_vars

(***************************************************************************)
(* Reading the trace                                                       *)
(***************************************************************************)
IsEvent(e) == e.kind = "next"
IsCall(e) == e.kind = "call"
Events == SelectSeq(trace, IsEvent)
Calls == SelectSeq(trace, IsCall)
Names(entries) == [i \in 1..Len(entries) |-> entries[i].name]
RunIds(entries) == [i \in 1..Len(entries) |-> entries[i].runId]
CountNamed(entries, name) ==
    Cardinality({i \in 1..Len(entries) : entries[i].name = name})
CountKind(kind) == Cardinality({i \in 1..Len(trace) : trace[i].kind = kind})
Last(s) == s[Len(s)]

(* trace[1] is the getHistory call, trace[2] its outcome *)
HistoryReturned == Len(trace) >= 2 /\ trace[2].kind = "return"
HistoryFailed == Len(trace) >= 2 /\ trace[2].kind = "throw"
ReturnedHistory == trace[2].data
ReturnedEmpty == HistoryReturned /\ ReturnedHistory \in EmptyHistories
Threw(name) ==
    \E i \in 1..Len(trace) : trace[i].kind = "throw" /\ trace[i].name = name
InternalError == Threw("TypeError")

(* subscriber.complete() was called exactly once, as the last thing *)
CompletedLast ==
    /\ CountKind("complete") = 1
    /\ Last(trace).kind = "complete"

FallbackNames == <<"RUN_STARTED", "MESSAGES_SNAPSHOT", "RUN_FINISHED">>

(* C1: when getHistory returns an empty list or null, the subscriber gets   *)
(* exactly RUN_STARTED, MESSAGES_SNAPSHOT with no messages, RUN_FINISHED,   *)
(* all with one runId, then complete, and getHistory is the only backend    *)
(* call made.                                                               *)
C1_EmptyHistoryHandshake ==
    ReturnedEmpty =>
        /\ pc = "done"
        /\ Names(Events) = FallbackNames
        /\ Events[2].data = <<>>
        /\ Events[1].runId = Events[2].runId
        /\ Events[2].runId = Events[3].runId
        /\ CompletedLast
        /\ Names(Calls) = <<"getHistory">>

C1_Witness == pc = "done" /\ HistoryReturned /\ ReturnedHistory = Some(<<>>)

(* C2: whatever the backend calls do, the delivered events begin with      *)
(* RUN_STARTED, end with RUN_FINISHED, and hold exactly one of each.        *)
C2_OneBracket ==
    pc = "done" =>
        /\ Events[1].name = "RUN_STARTED"
        /\ Last(Events).name = "RUN_FINISHED"
        /\ CountNamed(Events, "RUN_STARTED") = 1
        /\ CountNamed(Events, "RUN_FINISHED") = 1

(* C3: when hydrate()'s own code raises after the snapshot events went out, *)
(* the subscriber still gets one handshake: a single RUN_STARTED first, a   *)
(* single RUN_FINISHED last, then complete.                                 *)
C3_OneHandshakeAfterError ==
    (pc = "done" /\ InternalError) =>
        /\ Events[1].name = "RUN_STARTED"
        /\ CountNamed(Events, "RUN_STARTED") = 1
        /\ Last(Events).name = "RUN_FINISHED"
        /\ CountNamed(Events, "RUN_FINISHED") = 1
        /\ CompletedLast

(* C4: subscriber.complete is called exactly once per connect(), nothing   *)
(* is handed to the subscriber after it, and subscriber.error is never      *)
(* called.                                                                  *)
C4_CompleteOnceAndLast ==
    /\ CountKind("error") = 0
    /\ \A i \in 1..Len(trace) : trace[i].kind = "complete" => i = Len(trace)
    /\ pc = "done" <=> (trace # <<>> /\ Last(trace).kind = "complete")

C4_Witness ==
    /\ pc = "done"
    /\ Threw("read")
    /\ CompletedLast

(* C5: when getHistory fails, connect() emits exactly RUN_STARTED, an empty *)
(* MESSAGES_SNAPSHOT and RUN_FINISHED with one generated runId, completes,  *)
(* never calls subscriber.error, and makes no other backend call.           *)
C5_FetchFailureFallback ==
    HistoryFailed =>
        /\ pc = "done"
        /\ Names(Events) = FallbackNames
        /\ Events[2].data = <<>>
        /\ \E n \in Nonces : RunIds(Events) = [i \in 1..3 |-> ErrorRunId(n)]
        /\ CompletedLast
        /\ CountKind("error") = 0
        /\ Names(Calls) = <<"getHistory">>

C5_Witness == pc = "done" /\ HistoryFailed /\ Len(Events) = 3

(***************************************************************************)
(* The message log                                                         *)
(***************************************************************************)
(* the messages of the returned history (newest first) walked from the     *)
(* oldest checkpoint, index Len, to the newest, index 1                     *)
RECURSIVE ChronoFrom(_, _)
ChronoFrom(h, k) ==
    IF k = 0 THEN <<>> ELSE MessagesOf(h[k]) \o ChronoFrom(h, k - 1)
Chronological == ChronoFrom(ReturnedHistory[1], Len(ReturnedHistory[1]))

Ids(msgs) == [i \in 1..Len(msgs) |-> msgs[i].id]
IdSet(msgs) == {msgs[i].id : i \in 1..Len(msgs)}
FirstIndex(msgs, id) ==
    CHOOSE k \in 1..Len(msgs) :
        msgs[k].id = id /\ \A m \in 1..(k - 1) : msgs[m].id # id

LogBuilt == pc = "listRuns1" /\ HistoryReturned

(* C6: the log holds no id twice, and its ids are in the order of their    *)
(* first occurrence when the checkpoints are walked oldest to newest.       *)
C6_DedupChronological ==
    LogBuilt =>
        /\ \A i, j \in 1..Len(allMessages) :
               i < j => allMessages[i].id # allMessages[j].id
        /\ IdSet(allMessages) \subseteq IdSet(Chronological)
        /\ \A i, j \in 1..Len(allMessages) :
               i < j => FirstIndex(Chronological, allMessages[i].id)
                          < FirstIndex(Chronological, allMessages[j].id)

(* an id repeated across two checkpoints, and three distinct ids *)
C6_Witness ==
    /\ LogBuilt
    /\ Len(ReturnedHistory[1]) = 2
    /\ Len(allMessages) = 3
    /\ Len(Chronological) = 4

(* C7: with historyLimit k > 0 the list handed to the transformer has at   *)
(* most k entries and is the last min(k, n) entries of the deduplicated log *)
(* of n messages, n being the number of distinct ids of the history.        *)
C7_LimitAfterDedup ==
    (LogBuilt /\ historyLimit > 0) =>
        LET n == Cardinality(IdSet(Chronological))
            kept == Min(historyLimit, n)
        IN  /\ Len(allMessages) = n
            /\ Len(limitedMessages) <= historyLimit
            /\ Len(limitedMessages) = kept
            /\ \A i \in 1..kept : limitedMessages[i] = allMessages[n - kept + i]

(* the limit cuts a log that also held duplicates *)
C7_Witness ==
    /\ LogBuilt
    /\ historyLimit = 2
    /\ Len(allMessages) = 3
    /\ Len(Chronological) = 4
    /\ Len(limitedMessages) = 2

(***************************************************************************)
(* The snapshot phase                                                      *)
(***************************************************************************)
HistoryReturnedNonEmpty == HistoryReturned /\ ReturnedHistory \notin EmptyHistories
NonFallback == HistoryReturnedNonEmpty /\ ~InternalError

(* the chronologically latest checkpoint: the first one of the response *)
ReturnedLatest == ReturnedHistory[1][1]

InterruptedTasks(state) ==
    IF IsSome(state.tasks)
    THEN {i \in 1..Len(state.tasks[1]) :
            state.tasks[1][i].kind = "task" /\ HasInterrupts(state.tasks[1][i])}
    ELSE {}
FirstInterruptedTask(state) ==
    CHOOSE i \in InterruptedTasks(state) : \A j \in InterruptedTasks(state) : i <= j
FirstInterruptOf(state) ==
    state.tasks[1][FirstInterruptedTask(state)].interrupts[1][1]

ExpectedSnapshotNames(state) ==
    <<"RUN_STARTED", "MESSAGES_SNAPSHOT">>
        \o (IF IsSome(state.values) THEN <<"STATE_SNAPSHOT">> ELSE <<>>)
        \o (IF InterruptedTasks(state) # {} THEN <<"CUSTOM">> ELSE <<>>)

(* trace[3] is the first runs.list call, trace[4] its outcome; the events  *)
(* that follow it, up to the next call or complete                          *)
SnapshotLength ==
    CHOOSE n \in 0..(Len(trace) - 4) :
        /\ \A i \in 5..(4 + n) : IsEvent(trace[i])
        /\ (4 + n = Len(trace) \/ ~IsEvent(trace[5 + n]))
SnapshotSegment == SubSeq(trace, 5, 4 + SnapshotLength)

IsCallOf(e, name) == e.kind = "call" /\ e.name = name
Called(name) == \E i \in 1..Len(trace) : IsCallOf(trace[i], name)

(* C8: without a fallback the snapshot events come in the order            *)
(* RUN_STARTED, MESSAGES_SNAPSHOT, STATE_SNAPSHOT (only with values),       *)
(* interrupt (only with an interrupted task); nothing is emitted before     *)
(* getHistory and the first runs.list are over, and all of them are emitted *)
(* before joinStream is called.                                             *)
C8_SnapshotOrder ==
    /\ pc \in {"idle", "getHistory", "listRuns1"} => Events = <<>>
    /\ (NonFallback /\ pc \notin {"getHistory", "listRuns1"}) =>
          LET expected == ExpectedSnapshotNames(ReturnedLatest) IN
          /\ trace[4].name = "runs.list"
          /\ trace[4].kind \in {"return", "throw"}
          /\ Names(SnapshotSegment) \in {expected, expected \o <<"RUN_FINISHED">>}
          /\ \A i \in 1..Len(trace) :
                 IsCallOf(trace[i], "joinStream") => i > 4 + Len(expected)

C8_Witness ==
    /\ NonFallback
    /\ pc = "joinStream"
    /\ Names(Events) = <<"RUN_STARTED", "MESSAGES_SNAPSHOT", "STATE_SNAPSHOT", "CUSTOM">>

(* C9: when the latest checkpoint has an interrupted task, exactly one     *)
(* interrupt event is emitted over the whole connect(), the final state     *)
(* check after a join included, and it carries the first interrupt of the   *)
(* first interrupted task.                                                  *)
IsInterruptEvent(e) == e.kind = "next" /\ e.name = "CUSTOM"
InterruptEventsSent == SelectSeq(trace, IsInterruptEvent)

C9_ExactlyOneInterrupt ==
    (pc = "done" /\ NonFallback /\ InterruptedTasks(ReturnedLatest) # {}) =>
        /\ Len(InterruptEventsSent) = 1
        /\ InterruptEventsSent[1].data.name = "on_interrupt"
        /\ InterruptEventsSent[1].data.raw = FirstInterruptOf(ReturnedLatest).value

(* C10: when the first chunk of a join about a message or a tool call is a *)
(* content or end chunk, the translator emits the start event for that id   *)
(* first and then the content or end event; the chunk is not an error.      *)
IsChunkAt(i) ==
    trace[i].kind = "return" /\ trace[i].name = "read" /\ IsSome(trace[i].data)
ChunkAt(i) == trace[i].data[1]
LateKinds == {"msg_content", "msg_end", "tool_args", "tool_end"}
FirstAbout(i) ==
    \A j \in 1..(i - 1) : IsChunkAt(j) => ChunkAt(j).id # ChunkAt(i).id
StartName(kind) ==
    IF kind \in {"msg_content", "msg_end"} THEN "TEXT_MESSAGE_START"
    ELSE "TOOL_CALL_START"
LateName(kind) ==
    CASE kind = "msg_content" -> "TEXT_MESSAGE_CONTENT"
      [] kind = "msg_end" -> "TEXT_MESSAGE_END"
      [] kind = "tool_args" -> "TOOL_CALL_ARGS"
      [] kind = "tool_end" -> "TOOL_CALL_END"
IsEventFor(e, name, id) == e.kind = "next" /\ e.name = name /\ e.data = id

C10_MidStreamStart ==
    \A i \in 1..Len(trace) :
        (IsChunkAt(i) /\ ChunkAt(i).kind \in LateKinds /\ FirstAbout(i)) =>
            /\ Len(trace) >= i + 2
            /\ IsEventFor(trace[i + 1], StartName(ChunkAt(i).kind), ChunkAt(i).id)
            /\ IsEventFor(trace[i + 2], LateName(ChunkAt(i).kind), ChunkAt(i).id)

(* the stream opens with the end chunk of a message and goes on with the   *)
(* arguments of a tool call                                                 *)
C10_Witness ==
    /\ chunksRead = 2
    /\ \E i, j \in 1..Len(trace) :
          /\ i < j
          /\ IsChunkAt(i) /\ ChunkAt(i) = Chunk("msg_end", "m1", "")
          /\ IsChunkAt(j) /\ ChunkAt(j) = Chunk("tool_args", "t1", "")
          /\ trace[i + 1].name = "TEXT_MESSAGE_START"
          /\ trace[j + 1].name = "TOOL_CALL_START"

(***************************************************************************)
(* The active-run check and the join                                       *)
(***************************************************************************)
(* the outcome of the second runs.list call, if it was made: trace[3] is   *)
(* the first call, so the second one lies beyond trace[4]                  *)
IsOutcomeOf(e, name) == e.kind \in {"return", "throw"} /\ e.name = name
SecondListIndex ==
    IF \E i \in 5..Len(trace) : IsOutcomeOf(trace[i], "runs.list")
    THEN CHOOSE i \in 5..Len(trace) : IsOutcomeOf(trace[i], "runs.list")
    ELSE 0
SecondListReturned ==
    SecondListIndex > 0 /\ trace[SecondListIndex].kind = "return"
ActiveRunFound ==
    SecondListReturned /\ FindActiveRun(trace[SecondListIndex].data) > 0
FoundActiveRun ==
    LET runs == trace[SecondListIndex].data IN runs[1][FindActiveRun(runs)]

IndicesOf(P(_)) == {i \in 1..Len(trace) : P(trace[i])}
IsJoinCall(e) == IsCallOf(e, "joinStream")
IsRunFinished(e) == e.kind = "next" /\ e.name = "RUN_FINISHED"
(* the joined stream is over: it ended, its iteration failed, or it could  *)
(* not be opened                                                           *)
IsStreamOver(e) ==
    \/ e.kind = "return" /\ e.name = "read" /\ ~IsSome(e.data)
    \/ e.kind = "throw" /\ e.name \in {"read", "joinStream"}
(* what the translator did with a chunk: its events, or its exception *)
IsChunkEntry(e) == e.kind = "return" /\ e.name = "read" /\ IsSome(e.data)
IsTranslation(e) ==
    \/ e.kind = "next"
    \/ e.kind = "throw" /\ e.name = "processStreamChunk"

(* C11: when the latest checkpoint is busy and the second runs.list        *)
(* returns a running or pending run, exactly one joinStream is opened, for  *)
(* that run; RUN_FINISHED is emitted once, only after the stream is over    *)
(* and after every chunk read was given to the translator, never while the  *)
(* stream is open.                                                          *)
C11_JoinDefersRunFinished ==
    ActiveRunFound =>
        /\ IsThreadBusy(ReturnedLatest)
        /\ IndicesOf(IsJoinCall) = {SecondListIndex + 1}
        /\ trace[SecondListIndex + 1].data = FoundActiveRun.run_id
        /\ \A j \in IndicesOf(IsRunFinished) :
              /\ \E k \in IndicesOf(IsStreamOver) : k < j
              /\ \A k \in 1..Len(trace) : IsChunkAt(k) => k < j
        /\ \A k \in 1..Len(trace) :
              (IsChunkAt(k) /\ ChunkAt(k).kind \in MessageKinds \cup ToolKinds
                                 \cup {"malformed"})
                  => IsTranslation(trace[k + 1])
        /\ Cardinality(IndicesOf(IsChunkEntry)) = chunksRead
        /\ Cardinality(IndicesOf(IsRunFinished)) = IF pc = "done" THEN 1 ELSE 0

(* a join of two chunks that ended and was followed by RUN_FINISHED *)
C11_Witness ==
    /\ pc = "done"
    /\ ActiveRunFound
    /\ chunksRead = 2
    /\ \E k \in 1..Len(trace) :
          trace[k].kind = "return" /\ trace[k].name = "read" /\ ~IsSome(trace[k].data)
    /\ Last(Events).name = "RUN_FINISHED"

IsSnapshotEvent(e) ==
    e.kind = "next" /\ e.name \in {"MESSAGES_SNAPSHOT", "STATE_SNAPSHOT", "CUSTOM"}
NextIsEmpty(state) == state.next = None \/ state.next = Some(<<>>)
LatestIdle == HistoryReturnedNonEmpty /\ NextIsEmpty(ReturnedLatest)

(* C12: when the latest checkpoint's next is empty or absent, connect()    *)
(* calls neither joinStream nor runs.list a second time, whatever runs the  *)
(* first runs.list reported, and RUN_FINISHED comes right after the         *)
(* snapshot events, with no backend call in between.                        *)
C12_IdleNeverJoins ==
    LatestIdle =>
        /\ IndicesOf(IsJoinCall) = {}
        /\ SecondListIndex = 0
        /\ Names(Calls) \in {<<"getHistory">>, <<"getHistory", "runs.list">>}
        /\ \A j \in IndicesOf(IsRunFinished) : IsSnapshotEvent(trace[j - 1])
        /\ pc \in {"getHistory", "listRuns1", "done"}
        /\ pc = "done" => Last(Events).name = "RUN_FINISHED"

(* an idle thread whose run list holds a running run *)
C12_Witness ==
    /\ pc = "done"
    /\ LatestIdle
    /\ trace[4].kind = "return"
    /\ FindActiveRun(trace[4].data) > 0
    /\ Last(Events).name = "RUN_FINISHED"

HasStatusIn(runs, statuses) ==
    \E i \in 1..Len(runs) : runs[i].status \in statuses
NoActiveRunReported ==
    /\ SecondListIndex > 0
    /\ \/ trace[SecondListIndex].kind = "throw"
       \/ trace[SecondListIndex].data = None
       \/ ~HasStatusIn(trace[SecondListIndex].data[1], {"running", "pending"})

(* C13: when the latest checkpoint is busy but the second runs.list fails  *)
(* or reports no running or pending run, connect() calls no joinStream,     *)
(* emits RUN_FINISHED as the next event after the snapshot events, with the *)
(* runId of RUN_STARTED, and completes.                                     *)
C13_BusyWithoutActiveRun ==
    NoActiveRunReported =>
        /\ pc = "done"
        /\ ~NextIsEmpty(ReturnedLatest)
        /\ IndicesOf(IsJoinCall) = {}
        /\ Names(Calls) = <<"getHistory", "runs.list", "runs.list">>
        /\ IsCallOf(trace[SecondListIndex - 1], "runs.list")
        /\ IsSnapshotEvent(trace[SecondListIndex - 2])
        /\ Len(trace) = SecondListIndex + 2
        /\ IsRunFinished(trace[SecondListIndex + 1])
        /\ trace[SecondListIndex + 1].runId = Events[1].runId
        /\ Cardinality(IndicesOf(IsRunFinished)) = 1
        /\ CompletedLast

(* a busy thread whose runs are all interrupted, failed or timed out *)
C13_Witness ==
    /\ pc = "done"
    /\ NoActiveRunReported
    /\ SecondListReturned
    /\ Len(trace[SecondListIndex].data[1]) = 3

(* trace[3] is the first runs.list call and trace[4] its outcome *)
FirstListOver == Len(trace) >= 4 /\ IsOutcomeOf(trace[4], "runs.list")
FirstListGaveNoRun ==
    trace[4].kind = "throw" \/ trace[4].data \in {None, Some(<<>>)}
GeneratedIds == {"hydration_" \o n : n \in Nonces}

(* C14: when the first runs.list fails or returns no run, connect() still  *)
(* emits RUN_STARTED, the MESSAGES_SNAPSHOT with the whole transformed log  *)
(* and the STATE_SNAPSHOT of the latest values, all with one generated      *)
(* runId "hydration_<random>"; when it returns runs, these events carry the *)
(* run_id of the first run of the list.                                     *)
C14_RunIdOfSnapshot ==
    (HistoryReturnedNonEmpty /\ FirstListOver) =>
        LET withState == IsSome(ReturnedLatest.values)
            last == IF withState THEN 7 ELSE 6
        IN  /\ Len(trace) >= last
            /\ IsEvent(trace[5]) /\ trace[5].name = "RUN_STARTED"
            /\ IsEvent(trace[6]) /\ trace[6].name = "MESSAGES_SNAPSHOT"
            /\ trace[6].data = transformedMessages
            /\ Len(trace[6].data) = Len(allMessages)
                   \/ (historyLimit > 0 /\ Len(trace[6].data) = historyLimit)
            /\ withState =>
                  /\ IsEvent(trace[7]) /\ trace[7].name = "STATE_SNAPSHOT"
                  /\ trace[7].data = ReturnedLatest.values[1]
            /\ \A i \in 5..last :
                  IF FirstListGaveNoRun THEN trace[i].runId \in GeneratedIds
                  ELSE trace[i].runId = trace[4].data[1][1].run_id

(* the run list could not be fetched and the snapshot went out all the same *)
C14_Witness ==
    /\ HistoryReturnedNonEmpty
    /\ FirstListOver
    /\ trace[4].kind = "throw"
    /\ Len(trace) >= 7
    /\ Len(trace[6].data) = 1
    /\ trace[7].name = "STATE_SNAPSHOT"
    /\ trace[7].runId \in GeneratedIds

(***************************************************************************)
(* Chunks the translator rejects                                           *)
(***************************************************************************)
IsChunkError(e) == e.kind = "throw" /\ e.name = "processStreamChunk"
(* the translator has just thrown and the loop has asked for the next chunk *)
ChunkJustThrew ==
    /\ Len(trace) >= 3
    /\ IsChunkEntry(trace[Len(trace) - 2])
    /\ IsChunkError(trace[Len(trace) - 1])
    /\ IsCallOf(Last(trace), "read")
ChunkErrorSeen == IndicesOf(IsChunkError) # {}

(* C15: when the translator throws on a chunk, the join goes on: the next  *)
(* chunk is asked for, currentRunId and manuallyEmittedState stay what they *)
(* were before that chunk, every chunk read later is given to the           *)
(* translator, and RUN_FINISHED is emitted once, after the stream is over.  *)
C15_ChunkErrorSkipped ==
    /\ [][ChunkErrorSeen' /\ ~ChunkErrorSeen =>
              /\ ChunkJustThrew'
              /\ pc' = "read"
              /\ currentRunId' = currentRunId
              /\ manuallyEmittedState' = manuallyEmittedState]_vars
    /\ [][(ChunkJustThrew /\ Len(trace') > Len(trace)) =>
              /\ pc = "read"
              /\ \/ IsChunkEntry(trace'[Len(trace) + 1])
                 \/ IsStreamOver(trace'[Len(trace) + 1])
              /\ IsChunkEntry(trace'[Len(trace) + 1]) =>
                    \/ ChunkJustThrew'
                    \/ /\ currentRunId' =
                              (IF trace'[Len(trace) + 1].data[1].runId # ""
                               THEN trace'[Len(trace) + 1].data[1].runId
                               ELSE currentRunId)
                       /\ \A i \in (Len(trace) + 2)..(Len(trace') - 1) :
                              /\ IsEvent(trace'[i])
                              /\ trace'[i].runId = currentRunId']_vars
    /\ [](ChunkErrorSeen =>
              /\ \A i \in IndicesOf(IsChunkError) : IsChunkEntry(trace[i - 1])
              /\ \A j \in IndicesOf(IsRunFinished) :
                     \E k \in IndicesOf(IsStreamOver) : k < j
              /\ pc = "done" =>
                     /\ Cardinality(IndicesOf(IsRunFinished)) = 1
                     /\ Last(Events).name = "RUN_FINISHED")

(* a rejected chunk, then a chunk that is translated, then the end *)
C15_Witness ==
    /\ pc = "done"
    /\ chunksRead = 2
    /\ \E i \in IndicesOf(IsChunkError) :
          /\ IsChunkEntry(trace[i + 2])
          /\ trace[i + 3].name = "TEXT_MESSAGE_START"
    /\ Last(Events).name = "RUN_FINISHED"

(***************************************************************************)
(* The run id of a join                                                    *)
(***************************************************************************)
(* chunk i carried a run id and the translator returned it *)
YieldsRunId(i) ==
    /\ IsChunkAt(i)
    /\ ChunkAt(i).runId # ""
    /\ ~IsChunkError(trace[i + 1])
(* the run id in force at position j: that of the last chunk before j that  *)
(* yielded one                                                              *)
LatestYieldBefore(j) ==
    CHOOSE i \in 1..(j - 1) :
        YieldsRunId(i) /\ \A k \in (i + 1)..(j - 1) : ~YieldsRunId(k)

(* C17: once a chunk of the join has yielded a new run id, every event     *)
(* emitted after it carries the latest run id yielded so far: translated    *)
(* events, the final interrupt event and RUN_FINISHED, whether the stream   *)
(* ends or its iteration fails.                                             *)
C17_LatestRunId ==
    \A j \in 1..Len(trace) :
        (IsEvent(trace[j]) /\ \E i \in 1..(j - 1) : YieldsRunId(i)) =>
            trace[j].runId = ChunkAt(LatestYieldBefore(j)).runId

(***************************************************************************)
(* Unsubscribing                                                           *)
(***************************************************************************)
IsUnsubscribe(e) == e.kind = "unsubscribe"
(* at position u a join is in progress: the stream was opened, its first   *)
(* chunk was asked for, and it is not over                                  *)
JoinInProgressAt(u) ==
    /\ \E i \in 1..(u - 1) : IsJoinCall(trace[i])
    /\ \E i \in 1..(u - 1) : IsCallOf(trace[i], "read")
    /\ \A i \in 1..(u - 1) : ~IsStreamOver(trace[i])

(* C16: after the consumer has unsubscribed during a join, hydrate() asks  *)
(* for no further chunk of the joined stream and makes no getState call.    *)
C16_NoReadAfterUnsubscribe ==
    \A u \in IndicesOf(IsUnsubscribe) :
        JoinInProgressAt(u) =>
            \A j \in (u + 1)..Len(trace) :
                /\ ~IsCallOf(trace[j], "read")
                /\ ~IsChunkEntry(trace[j])
                /\ ~IsCallOf(trace[j], "getState")

(***************************************************************************)
(* manuallyEmittedState from one join to the next                          *)
(***************************************************************************)
IsStreamEnd(e) == e.kind = "return" /\ e.name = "read" /\ ~IsSome(e.data)
(* the earlier hydration of the runner joined a run and its stream ended *)
PreviousJoinEnded ==
    /\ other.pc = "done"
    /\ \E i \in 1..Len(other.trace) : IsStreamEnd(other.trace[i])
SameRunAsPrevious ==
    joinRunId = other.joinRunId /\ threadId = other.threadId
JoinJustOpened == pc = "read" /\ chunksRead = 0
IsStateSnapshot(e) == e.kind = "next" /\ e.name = "STATE_SNAPSHOT"
(* chunk i is a state chunk with payload P and no chunk of this join before *)
(* it carried another state                                                 *)
FirstStateIs(i, P) ==
    /\ IsChunkAt(i)
    /\ ChunkAt(i).kind = "state"
    /\ ChunkAt(i).id = P
    /\ \A k \in 1..(i - 1) :
          (IsChunkAt(k) /\ ChunkAt(k).kind = "state") => ChunkAt(k).id = P

C19_ScopedToRun ==
    (PreviousJoinEnded /\ ~SameRunAsPrevious) =>
        /\ JoinJustOpened => manuallyEmittedState = NoState
        /\ \A i \in 1..Len(trace) :
              FirstStateIs(i, ChunkAt(i).id) => IsStateSnapshot(trace[i + 1])

(***************************************************************************)
(* Two hydrations of one runner at the same time                           *)
(***************************************************************************)
(* the step is one of the running hydrate(), not a switch to the other one *)
OwnStep == other' = other
OtherInFlight == other.pc \notin {"idle", "done"}
NoStateChunkRead ==
    \A i \in 1..Len(trace) : IsChunkAt(i) => ChunkAt(i).kind # "state"

(* C20: two hydrations that overlap on one runner do not affect each       *)
(* other.  A join opened while the other hydration is in flight starts from *)
(* the manuallyEmittedState the runner had before either began, so its      *)
(* events are those it emits alone; and a join that read no state chunk     *)
(* leaves the runner's manuallyEmittedState as it finds it when its stream  *)
(* ends, so no update of the other join is lost.                            *)
C20_NoSharedState ==
    /\ [][(OwnStep /\ pc = "joinStream" /\ pc' = "read" /\ OtherInFlight) =>
              manuallyEmittedState' = NoState]_vars
    /\ [][(OwnStep /\ pc = "read" /\ pc' = "getState" /\ NoStateChunkRead) =>
              activeRun' = activeRun]_vars

(***************************************************************************)
(* Malformed entries of the log                                            *)
(***************************************************************************)
IsWellFormed(m) == ~IsNullEntry(m)
IsMessagesSnapshot(e) == e.kind = "next" /\ e.name = "MESSAGES_SNAPSHOT"
MessagesSnapshots == SelectSeq(trace, IsMessagesSnapshot)

(* the well-formed messages of the returned checkpoints, oldest checkpoint *)
(* first, the first occurrence of each id, the newest historyLimit of them *)
WellFormedLog ==
    LET returned == ReturnedHistory[1]
        chrono == [i \in 1..Len(returned) |-> returned[Len(returned) + 1 - i]]
        wellFormed == SelectSeq(Flatten(chrono), IsWellFormed)
        firsts == SelectSeq([i \in 1..Len(wellFormed) |->
                               [m |-> wellFormed[i],
                                first |-> \A j \in 1..(i - 1) :
                                             wellFormed[j].id # wellFormed[i].id]],
                            LAMBDA x : x.first)
        log == [i \in 1..Len(firsts) |-> firsts[i].m]
    IN  IF historyLimit > 0 /\ Len(log) > historyLimit
        THEN SubSeq(log, Len(log) - historyLimit + 1, Len(log))
        ELSE log

(* C23: one malformed entry in a checkpoint's messages list (a null entry) *)
(* does not crash the hydration: the MESSAGES_SNAPSHOT that is emitted     *)
(* holds every well-formed message of the log, in order and with unchanged *)
(* ids, and is not the empty snapshot of the fallback.                     *)
C23_MalformedEntrySkipped ==
    (HistoryReturnedNonEmpty /\ pc \notin {"getHistory", "listRuns1"}) =>
        /\ Len(MessagesSnapshots) >= 1
        /\ Ids(MessagesSnapshots[1].data) = Ids(WellFormedLog)

(***************************************************************************)
(* The end of a join                                                       *)
(***************************************************************************)
IsGetStateCall(e) == IsCallOf(e, "getState")
IsReadCall(e) == IsCallOf(e, "read")
JoinEnded == IndicesOf(IsStreamEnd) # {}
StreamEndIndex == CHOOSE i \in IndicesOf(IsStreamEnd) : TRUE
(* the interrupt event a final state calls for *)
FinalInterruptNames(outcome) ==
    IF /\ outcome.kind = "return"
       /\ IsSome(outcome.data)
       /\ InterruptedTasks(outcome.data[1]) # {}
    THEN <<"CUSTOM">>
    ELSE <<>>

(* C25: on the join path every chunk is read and translated before the     *)
(* stream's end, then getState is called exactly once, then the interrupt   *)
(* event is emitted if the final state has a task with a non-empty          *)
(* interrupts list, carrying its first interrupt, then RUN_FINISHED is      *)
(* emitted as the last event of the connect().                              *)
C25_JoinOrder ==
    JoinEnded =>
        LET s == StreamEndIndex IN
        /\ \A i \in IndicesOf(IsChunkEntry) \cup IndicesOf(IsReadCall)
                      \cup IndicesOf(IsChunkError) : i < s
        /\ IndicesOf(IsGetStateCall) = {s + 1}
        /\ \A i \in IndicesOf(IsRunFinished) : i > s + 2
        /\ pc = "getState" => Len(trace) = s + 1
        /\ pc = "done" =>
              LET outcome == trace[s + 2]
                  expected == FinalInterruptNames(outcome)
              IN  /\ IsOutcomeOf(outcome, "getState")
                  /\ Names(SubSeq(trace, s + 3, Len(trace)))
                        = expected \o <<"RUN_FINISHED", "">>
                  /\ expected # <<>> =>
                        /\ trace[s + 3].data.name = "on_interrupt"
                        /\ trace[s + 3].data.raw
                              = FirstInterruptOf(outcome.data[1]).value
                  /\ Last(Events).name = "RUN_FINISHED"
                  /\ Last(trace).kind = "complete"

(* two chunks were translated, the stream ended, and the final state had an *)
(* interrupted task                                                         *)
C25_Witness ==
    /\ pc = "done"
    /\ JoinEnded
    /\ chunksRead = 2
    /\ FinalInterruptNames(trace[StreamEndIndex + 2]) = <<"CUSTOM">>
    /\ trace[Len(trace) - 2].name = "CUSTOM"
    /\ trace[Len(trace) - 1].name = "RUN_FINISHED"

IsGetStateFailure(e) == e.kind = "throw" /\ e.name = "getState"
(* the run id in force at position j of a join: that of the latest chunk   *)
(* that yielded one, else the id of the run that was joined                 *)
JoinedRunId == trace[CHOOSE i \in IndicesOf(IsJoinCall) : TRUE].data
LatestRunIdAt(j) ==
    IF \E i \in 1..(j - 1) : YieldsRunId(i)
    THEN ChunkAt(LatestYieldBefore(j)).runId
    ELSE JoinedRunId

(* C26: when the getState call after the stream's end fails, no interrupt  *)
(* event follows, RUN_FINISHED is emitted exactly once and carries the      *)
(* latest run id of the join, and connect() completes.                      *)
C26_GetStateFailure ==
    \A g \in IndicesOf(IsGetStateFailure) :
        /\ pc = "done"
        /\ Names(SubSeq(trace, g + 1, Len(trace))) = <<"RUN_FINISHED", "">>
        /\ IndicesOf(IsRunFinished) = {g + 1}
        /\ trace[g + 1].runId = LatestRunIdAt(g)
        /\ CompletedLast
        /\ CountKind("error") = 0

(* a chunk gave the run id r9, the stream ended, and getState failed *)
C26_Witness ==
    /\ pc = "done"
    /\ IndicesOf(IsGetStateFailure) # {}
    /\ \E i \in 1..Len(trace) : YieldsRunId(i)
    /\ Last(Events).name = "RUN_FINISHED"
    /\ Last(Events).runId = "r9"

IsJoinFailure(e) == e.kind = "throw" /\ e.name \in {"read", "joinStream"}

(* C27: when joinStream throws or the iteration of the joined stream fails, *)
(* exactly one RUN_FINISHED is emitted over the connect(), getState is not  *)
(* called, no interrupt event follows the failure, the runner's             *)
(* manuallyEmittedState is what it was before the join, and connect()       *)
(* completes.                                                               *)
C27_JoinFailure ==
    \A f \in IndicesOf(IsJoinFailure) :
        /\ pc = "done"
        /\ Names(SubSeq(trace, f + 1, Len(trace))) = <<"RUN_FINISHED", "">>
        /\ IndicesOf(IsRunFinished) = {f + 1}
        /\ IndicesOf(IsGetStateCall) = {}
        /\ activeRun = NoState
        /\ CompletedLast
        /\ CountKind("error") = 0

(* the join had translated a state chunk when the iteration failed *)
C27_Witness ==
    /\ pc = "done"
    /\ Threw("read")
    /\ manuallyEmittedState = "P1"
    /\ activeRun = NoState
    /\ Last(Events).name = "RUN_FINISHED"

(***************************************************************************)
(* The instances that serve the requests                                   *)
(***************************************************************************)
ServedRequests ==
    {i \in 1..Len(requests) :
        ~requests[i].threw /\ requests[i].op \in {"run", "connect"}}
(* the instance of request i is the one the runner created while serving i *)
CreatedDuring(i) ==
    /\ requests[i].instance.origin = "request"
    /\ requests[i].instance.id =
          1 + Cardinality({j \in 1..(i - 1) :
                              requests[j].instance.origin = "request"})

(* C21: every run() is dispatched on an agent created during that run()    *)
(* call and every connect() uses a history client created during that      *)
(* connect() call, with and without a custom client; no agent and no client *)
(* serves two requests.                                                     *)
C21_FreshPerRequest ==
    /\ \A i \in ServedRequests :
          /\ requests[i].instance.kind
                = (IF requests[i].op = "run" THEN "agent" ELSE "client")
          /\ CreatedDuring(i)
    /\ \A i, j \in ServedRequests :
          i # j => requests[i].instance # requests[j].instance

(***************************************************************************)
(* The configuration check of the constructor                              *)
(***************************************************************************)
IsGiven(value) == IsSome(value) /\ value[1] # ""
OpsServed == {requests[i].op : i \in ServedRequests}

(* C22: the constructor fails exactly when deploymentUrl or graphId is     *)
(* missing, with or without a custom client.  On a runner that was built    *)
(* the frozen configuration holds both identifiers, no run() and no         *)
(* connect() throws, and an empty snapshot is only ever emitted after the   *)
(* backend was asked for the history.                                       *)
C22_ConfigValidated ==
    /\ constructed <=> (IsGiven(config.deploymentUrl) /\ IsGiven(config.graphId))
    /\ ~constructed => requests = <<>>
    /\ constructed =>
          /\ IsSome(frozenConfig)
          /\ frozenConfig[1].deploymentUrl = config.deploymentUrl[1]
          /\ frozenConfig[1].graphId = config.graphId[1]
          /\ \A i \in 1..Len(requests) :
                ~requests[i].threw /\ requests[i].instance.kind # "none"
          /\ MessagesSnapshots # <<>> =>
                /\ IsCallOf(trace[1], "getHistory")
                /\ IsOutcomeOf(trace[2], "getHistory")

(* a runner built with a custom client has served a run() and a connect() *)
C22_Witness ==
    /\ constructed
    /\ IsSome(config.client)
    /\ OpsServed = {"run", "connect"}
    /\ pc = "done"
    /\ MessagesSnapshots # <<>>

(***************************************************************************)
(* The limit of the history fetch                                          *)
(***************************************************************************)
ConfiguredLimit == config.historyLimit
PassedLimit == trace[1].data

(* C30: whatever historyLimit is configured, the limit passed to getHistory *)
(* is a positive integer not above MAX_HISTORY_LIMIT: the default when none *)
(* is configured, the maximum when the configured one is above it, the      *)
(* configured one when it lies in between, and the default when it is zero  *)
(* or negative, in which case the message log is not truncated.             *)
C30_FetchLimit ==
    pc # "idle" =>
        /\ IsCallOf(trace[1], "getHistory")
        /\ PassedLimit \in 1..MAX_HISTORY_LIMIT
        /\ ~IsSome(ConfiguredLimit) => PassedLimit = DEFAULT_HISTORY_LIMIT
        /\ IsSome(ConfiguredLimit) =>
              /\ ConfiguredLimit[1] > MAX_HISTORY_LIMIT =>
                    PassedLimit = MAX_HISTORY_LIMIT
              /\ ConfiguredLimit[1] \in 1..MAX_HISTORY_LIMIT =>
                    PassedLimit = ConfiguredLimit[1]
              /\ ConfiguredLimit[1] <= 0 =>
                    /\ PassedLimit = DEFAULT_HISTORY_LIMIT
                    /\ LogBuilt => limitedMessages = allMessages

(* historyLimit: 0, and a log of three messages that is kept whole *)
C30_Witness ==
    /\ ConfiguredLimit = Some(0)
    /\ LogBuilt
    /\ PassedLimit = DEFAULT_HISTORY_LIMIT
    /\ Len(allMessages) = 3
    /\ limitedMessages = allMessages

(***************************************************************************)
(* Start events of a join                                                  *)
(***************************************************************************)
(* the ids of the chunks of the given kinds read before position i *)
IdsBefore(i, kinds) ==
    {ChunkAt(j).id : j \in {k \in 1..(i - 1) :
                               IsChunkAt(k) /\ ChunkAt(k).kind \in kinds}}
StartsOf(name, id) == {i \in 1..Len(trace) : IsEventFor(trace[i], name, id)}
ChunkIds == {c.id : c \in Chunks}
(* chunk i of the given kinds is followed by the start event exactly when   *)
(* no earlier chunk of the join was about its id                            *)
StartsExactlyNew(kinds, name) ==
    \A i \in 1..Len(trace) :
        (IsChunkAt(i) /\ ChunkAt(i).kind \in kinds) =>
            (IsEventFor(trace[i + 1], name, ChunkAt(i).id)
                <=> ChunkAt(i).id \notin IdsBefore(i, kinds))

(* C24: within one join at most one start event is emitted for a message   *)
(* id and for a tool-call id, however many chunks are about it; the start   *)
(* event is emitted exactly when the id is not yet in startedMessages /     *)
(* startedToolCalls, and each set holds at every moment the ids of all      *)
(* chunks of the join translated so far, so it only grows.                  *)
C24_OneStartPerId ==
    /\ \A id \in ChunkIds :
          /\ Cardinality(StartsOf("TEXT_MESSAGE_START", id)) <= 1
          /\ Cardinality(StartsOf("TOOL_CALL_START", id)) <= 1
    /\ StartsExactlyNew(MessageKinds, "TEXT_MESSAGE_START")
    /\ StartsExactlyNew(ToolKinds, "TOOL_CALL_START")
    /\ startedMessages = IdsBefore(Len(trace) + 1, MessageKinds)
    /\ startedToolCalls = IdsBefore(Len(trace) + 1, ToolKinds)

(* two chunks about message m1, one start event *)
C24_Witness ==
    /\ chunksRead = 2
    /\ Cardinality({i \in 1..Len(trace) :
                       IsChunkAt(i) /\ ChunkAt(i).kind \in MessageKinds
                                    /\ ChunkAt(i).id = "m1"}) = 2
    /\ Cardinality(StartsOf("TEXT_MESSAGE_START", "m1")) = 1
    /\ startedMessages = {"m1"}

(***************************************************************************)
(* One backend call at a time                                              *)
(***************************************************************************)
BackendCalls == {"getHistory", "runs.list", "joinStream", "read", "getState"}
IsBackendCall(e) == e.kind = "call" /\ e.name \in BackendCalls
IsBackendOutcome(e) == e.kind \in {"return", "throw"} /\ e.name \in BackendCalls
(* the calls issued so far that have neither returned nor failed *)
Pending ==
    Cardinality(IndicesOf(IsBackendCall)) - Cardinality(IndicesOf(IsBackendOutcome))

(* C28: within one hydration at most one backend call is pending at any    *)
(* time.  While a call is pending the hydration does nothing else: the next *)
(* thing it records is that call's return or failure, so a call is issued   *)
(* only after the previous one is over, and a chunk is asked for only after *)
(* every event of the previous chunk's translation has been emitted.        *)
C28_OnePendingCall ==
    /\ Pending \in {0, 1}
    /\ (pc \notin {"idle", "done"}) <=> (Pending = 1)
    /\ Pending = 1 => IsBackendCall(Last(trace))
    /\ \A i \in 1..Len(trace) :
          /\ (IsBackendCall(trace[i]) /\ i < Len(trace)) =>
                /\ IsBackendOutcome(trace[i + 1])
                /\ trace[i + 1].name = trace[i].name
          /\ IsBackendOutcome(trace[i]) =>
                /\ i > 1
                /\ IsBackendCall(trace[i - 1])
                /\ trace[i - 1].name = trace[i].name

(* two chunks were translated one after the other and getState is pending *)
C28_Witness ==
    /\ pc = "getState"
    /\ chunksRead = 2
    /\ Pending = 1
    /\ Cardinality(IndicesOf(IsBackendCall)) = 8
    /\ \E i \in 1..Len(trace) : IsChunkAt(i) /\ IsEvent(trace[i + 1])

(***************************************************************************)
(* Termination.  Every backend call that is pending eventually returns or  *)
(* fails, and a joined stream eventually ends or fails however many chunks  *)
(* it delivers first; whether connect() is called at all is left open.      *)
(***************************************************************************)
GetHistoryOver == (\E n \in Nonces : GetHistoryFails(n)) \/ HistoryArrives
RunsList1Over ==
    \/ \E runs \in RunLists, n, c \in Nonces : RunsList1Returns(runs, n, c)
    \/ \E n, c \in Nonces : RunsList1Fails(n, c)
RunsList2Over == (\E runs \in RunLists : RunsList2Returns(runs)) \/ RunsList2Fails
JoinStreamOver == JoinStreamThrows \/ JoinStreamOpens
StreamOver == StreamEnds \/ StreamFails
GetStateOver == (\E state \in FinalStates : GetStateReturns(state)) \/ GetStateFails

BackendResponds ==
    /\ WF_vars(GetHistoryOver)
    /\ WF_vars(RunsList1Over)
    /\ WF_vars(RunsList2Over)
    /\ WF_vars(JoinStreamOver)
    /\ WF_vars(StreamOver)
    /\ WF_vars(GetStateOver)

SpecLive == Init /\ [][Next]_vars /\ BackendResponds

Finished ==
    /\ pc = "done"
    /\ IndicesOf(IsRunFinished) # {}
    /\ Last(trace).kind = "complete"

(* C29: when every backend call eventually returns or fails and every      *)
(* joined stream eventually ends or fails, a connect() that has started     *)
(* eventually emits RUN_FINISHED and signals complete.                      *)
C29_Terminates == (pc \notin {"idle", "done"}) ~> Finished

(* a hydration that went through a join of two chunks has finished *)
C29_Witness ==
    /\ Finished
    /\ chunksRead = 2
    /\ JoinEnded

(***************************************************************************)
(* Which version of a message the log keeps, and which ids it holds        *)
(***************************************************************************)
(* C34: when a message id occurs in several checkpoints with different     *)
(* content, the log keeps the record of the chronologically oldest          *)
(* checkpoint that has the id; later versions are discarded.                *)
C34_FirstSeenWins ==
    LogBuilt =>
        \A i \in 1..Len(allMessages) :
            allMessages[i]
                = Chronological[FirstIndex(Chronological, allMessages[i].id)]

(* id a has content v2 in the newest checkpoint and v1 in the oldest one *)
C34_Witness ==
    /\ LogBuilt
    /\ Len(ReturnedHistory[1]) = 2
    /\ MessagesOf(ReturnedHistory[1][1]) = <<MsgA2, MsgB1>>
    /\ MessagesOf(ReturnedHistory[1][2]) = <<MsgA1>>
    /\ allMessages = <<MsgA1, MsgB1>>

NoTruncation == historyLimit <= 0 \/ historyLimit >= Len(allMessages)
HasNoMessages(checkpoint) ==
    \/ ~IsSome(checkpoint.values)
    \/ ~IsSome(checkpoint.values[1].messages)

(* C37: the log holds every message id that occurs in any fetched          *)
(* checkpoint, also an id that an older checkpoint has and the latest one   *)
(* lacks, and with no truncation in effect so does the list handed to the   *)
(* transformer; a checkpoint without values or without values.messages adds *)
(* nothing and does not stop the log from being built.                      *)
C37_EveryIdKept ==
    /\ (HistoryReturnedNonEmpty /\ pc # "getHistory") => LogBuilt
    /\ LogBuilt =>
          /\ IdSet(allMessages) = IdSet(Chronological)
          /\ Len(allMessages) = Cardinality(IdSet(Chronological))
          /\ NoTruncation => limitedMessages = allMessages

(* the latest checkpoint has no values; both ids come from the older one *)
C37_Witness ==
    /\ LogBuilt
    /\ NoTruncation
    /\ Len(ReturnedHistory[1]) = 2
    /\ HasNoMessages(ReturnedHistory[1][1])
    /\ Ids(limitedMessages) = <<"a", "c">>

(***************************************************************************)
(* The checkpoint the snapshot phase looks at                              *)
(***************************************************************************)
SegmentStates == SelectSeq(SnapshotSegment, IsStateSnapshot)
SegmentInterrupts == SelectSeq(SnapshotSegment, IsInterruptEvent)
IsListCall(e) == IsCallOf(e, "runs.list")
SnapshotDone == NonFallback /\ pc \notin {"idle", "getHistory", "listRuns1"}

(* C31: the state snapshot, the interrupt check and the busy check all use *)
(* the chronologically latest checkpoint, the first element of the list     *)
(* getHistory returned, whatever the length of the history: STATE_SNAPSHOT  *)
(* carries its values, the interrupt event its first interrupt, and the     *)
(* second runs.list call is made exactly when its next list is not empty.   *)
C31_LatestCheckpoint ==
    SnapshotDone =>
        /\ Len(SegmentStates) = (IF IsSome(ReturnedLatest.values) THEN 1 ELSE 0)
        /\ \A i \in 1..Len(SegmentStates) :
              SegmentStates[i].data = ReturnedLatest.values[1]
        /\ Len(SegmentInterrupts)
              = (IF InterruptedTasks(ReturnedLatest) # {} THEN 1 ELSE 0)
        /\ \A i \in 1..Len(SegmentInterrupts) :
              SegmentInterrupts[i].data.raw = FirstInterruptOf(ReturnedLatest).value
        /\ (Cardinality(IndicesOf(IsListCall)) = 2) <=> ~NextIsEmpty(ReturnedLatest)

(* an idle latest checkpoint on top of an older one that was busy and      *)
(* interrupted: no interrupt event, no second runs.list                     *)
C31_Witness ==
    /\ SnapshotDone
    /\ pc = "done"
    /\ Len(ReturnedHistory[1]) = 2
    /\ ReturnedLatest = IdleCheckpoint
    /\ Len(SegmentStates) = 1
    /\ SegmentInterrupts = <<>>
    /\ Cardinality(IndicesOf(IsListCall)) = 1

(***************************************************************************)
(* Which run a hydration joins                                             *)
(***************************************************************************)
JoinCalls == IndicesOf(IsJoinCall)
Joinable == {"running", "pending"}
FirstJoinable(runs) ==
    CHOOSE k \in 1..Len(runs) :
        /\ runs[k].status \in Joinable
        /\ \A m \in 1..(k - 1) : runs[m].status \notin Joinable

(* C32: one connect() makes at most one joinStream call, and the run it    *)
(* joins is the first one, in the order runs.list returned them, whose      *)
(* status is running or pending; a run that is success, error, timeout or   *)
(* interrupted is never joined.                                             *)
C32_JoinsFirstActiveRun ==
    /\ Cardinality(JoinCalls) <= 1
    /\ \A j \in JoinCalls :
          /\ SecondListReturned
          /\ LET runs == trace[SecondListIndex].data[1]
             IN  /\ \E k \in 1..Len(runs) : runs[k].status \in Joinable
                 /\ trace[j].data = runs[FirstJoinable(runs)].run_id

(* a finished hydration that joined r2, listed after a finished run and    *)
(* before a pending one                                                     *)
C32_Witness ==
    /\ pc = "done"
    /\ Cardinality(JoinCalls) = 1
    /\ SecondListReturned
    /\ Len(trace[SecondListIndex].data[1]) = 3
    /\ trace[SecondListIndex].data[1][1].status = "success"
    /\ trace[SecondListIndex].data[1][3].status = "pending"
    /\ \A j \in JoinCalls : trace[j].data = "r2"

(***************************************************************************)
(* The ids the events of one connect() carry                               *)
(***************************************************************************)
IsRunStarted(e) == e.kind = "next" /\ e.name = "RUN_STARTED"
CarriesRunId(i) == IsChunkAt(i) /\ ChunkAt(i).runId # ""
NoSupersedingChunk == \A i \in 1..Len(trace) : ~CarriesRunId(i)

(* C35: every event of a connect() carries the thread id of the request,   *)
(* and when no chunk of the joined stream brought a run id of its own,      *)
(* RUN_FINISHED carries the run id RUN_STARTED carried, wherever the joined *)
(* run stood in the list runs.list returned.                                *)
C35_OneRunIdPerConnect ==
    /\ \A i \in 1..Len(trace) : IsEvent(trace[i]) => trace[i].threadId = threadId
    /\ (~InternalError /\ NoSupersedingChunk) =>
          \A i, j \in 1..Len(trace) :
              (IsRunStarted(trace[i]) /\ IsRunFinished(trace[j])) =>
                  trace[j].runId = trace[i].runId

(***************************************************************************)
(* The agent stop() and isRunning() reach                                  *)
(***************************************************************************)
IsDispatch(r) == r.op = "run" /\ ~r.threw
IsControl(r) == r.op \in {"stop", "isRunning"}
PrecedingRun(i) ==
    CHOOSE j \in 1..(i - 1) :
        /\ IsDispatch(requests[j])
        /\ \A k \in (j + 1)..(i - 1) : ~IsDispatch(requests[k])

(* C36: stop() and isRunning() act on the agent instance the latest run()  *)
(* before them dispatched on, with a platform backend as with a custom      *)
(* client.                                                                  *)
C36_ControlsTheRunningAgent ==
    \A i \in 1..Len(requests) :
        (IsControl(requests[i]) /\ \E j \in 1..(i - 1) : IsDispatch(requests[j])) =>
            requests[i].instance = requests[PrecedingRun(i)].instance

(***************************************************************************)
(* What a join starts with                                                 *)
(***************************************************************************)
JoinStarts == pc = "joinStream" \/ JoinJustOpened

(* C33: when a join starts, also one that follows an earlier join of the   *)
(* same run on the runner, startedMessages and startedToolCalls are empty;  *)
(* of the earlier join only the manuallyEmittedState it ended with is       *)
(* taken over.                                                              *)
C33_FreshSetsPerJoin ==
    /\ JoinStarts => (startedMessages = {} /\ startedToolCalls = {})
    /\ (JoinJustOpened /\ PreviousJoinEnded) =>
          manuallyEmittedState = other.manuallyEmittedState

(* the earlier join of the run saw message m1 and state P1 and ended; the  *)
(* join that follows has just opened                                        *)
C33_Witness ==
    /\ JoinJustOpened
    /\ PreviousJoinEnded
    /\ SameRunAsPrevious
    /\ other.startedMessages = {"m1"}
    /\ other.manuallyEmittedState = "P1"
    /\ manuallyEmittedState = "P1"
    /\ startedMessages = {}
====
